---- MODULE Spec2Model ----
(***************************************************************************)
(* Model of the local agglomeration graph of agglomeration-proofreading:   *)
(* LocalGraph (graph + cc), connected_components, and the parts of the     *)
(* NeuronProofreading session that mutate the graph and its undo history.  *)
(*                                                                         *)
(* A Python dict is modelled as a sequence of records [k, v] in insertion  *)
(* order, a Python list as a sequence.  An operation that raises keeps the *)
(* assignments it made before the raise; the name of the exception is      *)
(* recorded in "raised".                                                   *)
(***************************************************************************)
EXTENDS Integers, Sequences, FiniteSets, TLC

\* ------------------------------------------------------------------ bounds
MaxId == 2
MaxNodes == 2
MaxEdges == 1
MaxKeys == 3
MaxActions == 3
MaxCalls == 4
MaxBatch == 3
MaxLedger == 3
MaxKeep == 2
MaxSelections == 6

Ids == 1..MaxId

\* ------------------------------------------------------------ list helpers
SeqSet(s) == {s[i] : i \in DOMAIN s}

InSeq(x, s) == \E i \in DOMAIN s : s[i] = x

Count(x, s) == Cardinality({i \in DOMAIN s : s[i] = x})

\* list.remove(x) for an x that is in the list: drops the first occurrence
RemoveFirst(s, x) ==
    LET i == CHOOSE j \in DOMAIN s : s[j] = x /\ \A h \in 1..(j - 1) : s[h] # x
    IN  SubSeq(s, 1, i - 1) \o SubSeq(s, i + 1, Len(s))

SeqMax(S) == CHOOSE m \in S : \A n \in S : n <= m

\* ------------------------------------------------------------ dict helpers
DictKeys(d) == {d[i].k : i \in DOMAIN d}

DictHas(d, key) == \E i \in DOMAIN d : d[i].k = key

DictGet(d, key) == d[CHOOSE i \in DOMAIN d : d[i].k = key].v

\* d[key] = val : an existing key keeps its position, a new one goes last
DictSet(d, key, val) ==
    IF DictHas(d, key)
    THEN [i \in DOMAIN d |-> IF d[i].k = key THEN [k |-> key, v |-> val] ELSE d[i]]
    ELSE Append(d, [k |-> key, v |-> val])

\* d.pop(key, None)
DictPop(d, key) == SelectSeq(d, LAMBDA e : e.k # key)

\* ---------------------------------------------------------------- ap_utils
\* return_other reads _list[0], and _list[1] when item equals _list[0]
return_other_raises(_list, item) ==
    \/ Len(_list) = 0
    \/ item = _list[1] /\ Len(_list) < 2

return_other(_list, item) == IF item = _list[1] THEN _list[2] ELSE _list[1]

\* ---------------------------------------------------- connected_components
\* an inner loop that never pops
PopVisited_NeverPops(visited, sv_id, queue) == [sv_id |-> sv_id, queue |-> queue]

\* the inner loop "while visited[sv_id] and queue: sv_id = queue.pop(0)"
RECURSIVE PopVisited(_, _, _)
PopVisited(visited, sv_id, queue) ==
    IF sv_id \in visited /\ queue # <<>>
    THEN PopVisited(visited, Head(queue), Tail(queue))
    ELSE [sv_id |-> sv_id, queue |-> queue]

\* a search that gives up after the first component
NextUnvisited_GivesUp(graph_, visited) == -1

\* next(sv for sv in graph.keys() if not visited[sv]); -1 stands for StopIteration
NextUnvisited(graph_, visited) ==
    LET idxs == {i \in DOMAIN graph_ : graph_[i].k \notin visited}
    IN  IF idxs = {} THEN -1
        ELSE graph_[CHOOSE i \in idxs : \A j \in idxs : i <= j].k

\* one pass of "while False in visited.values()"; st holds the loop's locals
RECURSIVE CCLoop(_, _)
CCLoop(graph_, st) ==
    IF DictKeys(graph_) \subseteq st.visited
    THEN [cc |-> st.cc, err |-> ""]
    ELSE
      LET visited   == st.visited \cup {st.sv_id}
          component == Append(st.component, st.sv_id)
          partners  == DictGet(graph_, st.sv_id)
      IN  IF \E i \in DOMAIN partners : ~DictHas(graph_, partners[i])
          THEN [cc |-> st.cc, err |-> "KeyError"]
          ELSE
            LET queue  == st.queue \o SelectSeq(partners, LAMBDA sv : sv \notin visited)
                popped == PopVisited(visited, st.sv_id, queue)
            IN  IF popped.queue = <<>> /\ popped.sv_id \in visited
                THEN LET cc1 == DictSet(st.cc, st.idx, component)
                         nxt == NextUnvisited(graph_, visited)
                     IN  IF nxt = -1
                         THEN [cc |-> cc1, err |-> ""]
                         ELSE CCLoop(graph_, [visited |-> visited, cc |-> cc1,
                                              idx |-> st.idx + 1, component |-> <<>>,
                                              queue |-> popped.queue, sv_id |-> nxt])
                ELSE CCLoop(graph_, [visited |-> visited, cc |-> st.cc,
                                     idx |-> st.idx, component |-> component,
                                     queue |-> popped.queue, sv_id |-> popped.sv_id])

\* result record: cc is the returned dict, err the exception raised ("" if none)
connected_components(graph_) ==
    IF graph_ = <<>>
    THEN [cc |-> <<>>, err |-> "StopIteration"]
    ELSE CCLoop(graph_, [visited |-> {}, cc |-> <<>>, idx |-> 0,
                         component |-> <<>>, queue |-> <<>>,
                         sv_id |-> graph_[1].k])

\* connected_components pass by pass: st holds where the call stands (at) and
\* the locals visited, cc, idx, component, queue, sv_id
NotCalled ==
    [at |-> "idle", visited |-> {}, cc |-> <<>>, idx |-> 0, component |-> <<>>,
     queue |-> <<>>, sv_id |-> 0]

\* the statements before the loop; next(iter(graph.keys())) needs a key
CCEnter(graph_) ==
    IF graph_ = <<>> THEN [NotCalled EXCEPT !.at = "StopIteration"]
    ELSE [NotCalled EXCEPT !.at = "while", !.sv_id = graph_[1].k]

\* the test of "while False in visited.values()" and, if it holds, the body
CCPass(graph_, st) ==
    IF DictKeys(graph_) \subseteq st.visited THEN [st EXCEPT !.at = "exit"]
    ELSE
      LET visited   == st.visited \cup {st.sv_id}
          component == Append(st.component, st.sv_id)
          partners  == DictGet(graph_, st.sv_id)
      IN  IF \E i \in DOMAIN partners : ~DictHas(graph_, partners[i])
          THEN [st EXCEPT !.at = "KeyError", !.visited = visited,
                          !.component = component]
          ELSE
            LET queue  == st.queue \o SelectSeq(partners, LAMBDA sv : sv \notin visited)
                popped == PopVisited(visited, st.sv_id, queue)
            IN  IF popped.queue = <<>> /\ popped.sv_id \in visited
                THEN LET nxt == NextUnvisited(graph_, visited)
                     IN  [at |-> IF nxt = -1 THEN "exit" ELSE "while",
                          visited |-> visited,
                          cc |-> DictSet(st.cc, st.idx, component),
                          idx |-> st.idx + 1, component |-> <<>>,
                          queue |-> popped.queue,
                          sv_id |-> IF nxt = -1 THEN popped.sv_id ELSE nxt]
                ELSE [at |-> "while", visited |-> visited, cc |-> st.cc,
                      idx |-> st.idx, component |-> component,
                      queue |-> popped.queue, sv_id |-> popped.sv_id]

\* ------------------------------------------------------------- LocalGraph
\* The methods are operators on a record s = [graph, cc, err, path]: err is
\* the exception that ended the call so far ("" while none was raised), path
\* the branch the last update of cc took.

\* the dict _map of _add_to_cc: node -> index of the last component holding it
RECURSIVE _map(_, _, _)
_map(cc_, edge, m) ==
    IF edge = <<>> THEN m
    ELSE LET node == Head(edge)
             hits == SelectSeq(cc_, LAMBDA e : InSeq(node, e.v))
         IN  _map(cc_, Tail(edge),
                  IF hits = <<>> THEN m ELSE DictSet(m, node, hits[Len(hits)].k))

\* a merge that leaves the surviving keys as they are
Reindexed_Skipped(cc_) == cc_

\* {i: members for i, members in enumerate(self.cc.values())}
Reindexed(cc_) == [i \in DOMAIN cc_ |-> [k |-> i - 1, v |-> cc_[i].v]]

\* a merge that does not look whether the two ends already share a component
NeedsMerge_Always(m, edge) == TRUE

\* _map[edge[0]] != _map[edge[1]]
NeedsMerge(m, edge) == DictGet(m, edge[1]) # DictGet(m, edge[2])

_add_to_cc(s, edge) ==
    LET m == _map(s.cc, edge, <<>>)
    IN  IF s.err # "" THEN s
        ELSE IF m = <<>>
        THEN LET idx == IF s.cc = <<>> THEN 0 ELSE SeqMax(DictKeys(s.cc)) + 1
             IN  [s EXCEPT !.cc = DictSet(s.cc, idx, edge), !.path = "new"]
        ELSE IF Len(m) = 1
        THEN IF return_other_raises(edge, m[1].k)
             THEN [s EXCEPT !.err = "IndexError", !.path = "append"]
             ELSE [s EXCEPT !.cc = DictSet(s.cc, m[1].v,
                       Append(DictGet(s.cc, m[1].v), return_other(edge, m[1].k))),
                            !.path = "append"]
        ELSE IF Len(m) = 2
        THEN IF ~DictHas(m, edge[1]) \/ ~DictHas(m, edge[2])
             THEN [s EXCEPT !.err = "KeyError"]
             ELSE IF NeedsMerge(m, edge)
             THEN LET c0 == DictGet(m, edge[1])
                      c1 == DictGet(m, edge[2])
                      combined_comp == DictGet(s.cc, c0) \o DictGet(s.cc, c1)
                  IN  [s EXCEPT !.cc = Reindexed(DictPop(DictSet(s.cc, c0, combined_comp), c1)),
                                !.path = "merge"]
             ELSE [s EXCEPT !.path = "same"]
        ELSE [s EXCEPT !.path = "same"]

update_cc(s) ==
    LET r == connected_components(s.graph)
    IN  IF s.err # "" THEN s
        ELSE IF r.err # "" THEN [s EXCEPT !.err = r.err, !.path = "update_cc"]
        ELSE [s EXCEPT !.cc = r.cc, !.path = "update_cc"]

RECURSIVE add_node(_, _)
add_node(s, node) ==
    IF s.err # "" \/ node = <<>> THEN s
    ELSE add_node(_add_to_cc([s EXCEPT !.graph = DictSet(s.graph, Head(node), <<>>)],
                             <<Head(node)>>),
                  Tail(node))

\* one pass of del_node's loop: pop the key, drop it from every partner list
DelOneNode(graph_, idx_) ==
    LET popped == DictPop(graph_, idx_)
    IN  [i \in DOMAIN popped |->
            IF InSeq(idx_, popped[i].v)
            THEN [k |-> popped[i].k, v |-> RemoveFirst(popped[i].v, idx_)]
            ELSE popped[i]]

RECURSIVE DelNodes(_, _)
DelNodes(graph_, node) ==
    IF node = <<>> THEN graph_
    ELSE DelNodes(DelOneNode(graph_, Head(node)), Tail(node))

del_node(s, node) == update_cc([s EXCEPT !.graph = DelNodes(s.graph, node)])

\* the loop "for node in edge" of add_single_edge, from position i on
RECURSIVE AddEdgeLoop(_, _, _)
AddEdgeLoop(s, edge, i) ==
    IF s.err # "" \/ i > Len(edge) THEN s
    ELSE LET node == edge[i]
             s1 == IF DictHas(s.graph, node) THEN s ELSE add_node(s, <<node>>)
         IN  IF s1.err # "" THEN s1
             ELSE IF return_other_raises(edge, node)
             THEN [s1 EXCEPT !.err = "IndexError"]
             ELSE LET partner == return_other(edge, node)
                      adj == DictGet(s1.graph, node)
                      s2 == IF InSeq(partner, adj) THEN s1
                            ELSE [s1 EXCEPT !.graph = DictSet(s1.graph, node,
                                                              Append(adj, partner))]
                  IN  AddEdgeLoop(s2, edge, i + 1)

add_single_edge(s, edge) == _add_to_cc(AddEdgeLoop(s, edge, 1), edge)

RECURSIVE AddEdges(_, _)
AddEdges(s, edges) ==
    IF s.err # "" \/ edges = <<>> THEN s
    ELSE AddEdges(add_single_edge(s, Head(edges)), Tail(edges))

\* the argument of add_edge / del_edge: nested is what
\* any(isinstance(item, list) for item in edge) gives; a flat edge is the
\* only element of edges
add_edge(s, nested, edges) ==
    IF nested THEN AddEdges(s, edges) ELSE add_single_edge(s, edges[1])

check_in_graph(graph_, nodes) == \A i \in DOMAIN nodes : DictHas(graph_, nodes[i])

\* the loop "for node in edge" of del_single_edge, from position i on
RECURSIVE DelEdgeLoop(_, _, _)
DelEdgeLoop(s, edge, i) ==
    IF s.err # "" \/ i > Len(edge) THEN s
    ELSE LET node == edge[i]
         IN  IF return_other_raises(edge, node)
             THEN [s EXCEPT !.err = "IndexError"]
             ELSE LET partner == return_other(edge, node)
                      adj == DictGet(s.graph, node)
                  IN  IF ~InSeq(partner, adj)
                      THEN [s EXCEPT !.err = "ValueError"]
                      ELSE DelEdgeLoop([s EXCEPT !.graph = DictSet(s.graph, node,
                                                       RemoveFirst(adj, partner))],
                                       edge, i + 1)

del_single_edge(s, edge) ==
    IF check_in_graph(s.graph, edge) THEN DelEdgeLoop(s, edge, 1) ELSE s

RECURSIVE DelEdges(_, _)
DelEdges(s, edges) ==
    IF s.err # "" \/ edges = <<>> THEN s
    ELSE DelEdges(del_single_edge(s, Head(edges)), Tail(edges))

del_edge(s, nested, edges) ==
    update_cc(IF nested THEN DelEdges(s, edges) ELSE del_single_edge(s, edges[1]))

\* return_edge_list giving only the edges whose partner is a key as well
return_edge_list_BothKeys(graph_, node) ==
    LET EdgesOf(sv_id) == IF DictHas(graph_, sv_id)
                          THEN SelectSeq([i \in DOMAIN DictGet(graph_, sv_id) |->
                                             <<sv_id, DictGet(graph_, sv_id)[i]>>],
                                         LAMBDA e : DictHas(graph_, e[2]))
                          ELSE <<>>
        F[i \in 0..Len(node)] == IF i = 0 THEN <<>> ELSE F[i - 1] \o EdgesOf(node[i])
    IN  F[Len(node)]

return_edge_list(graph_, node) ==
    LET EdgesOf(sv_id) == IF DictHas(graph_, sv_id)
                          THEN [i \in DOMAIN DictGet(graph_, sv_id) |->
                                   <<sv_id, DictGet(graph_, sv_id)[i]>>]
                          ELSE <<>>
        F[i \in 0..Len(node)] == IF i = 0 THEN <<>> ELSE F[i - 1] \o EdgesOf(node[i])
    IN  F[Len(node)]

\* a test with "and" for "or": only the edges with both endpoints outside
isolate_set_BothOutside(sv_ids, edges) ==
    SelectSeq(edges, LAMBDA edge : ~InSeq(edge[1], sv_ids) /\ ~InSeq(edge[2], sv_ids))

\* a test for the edges that leave the set: one endpoint inside, one outside
isolate_set_LeavingOnly(sv_ids, edges) ==
    SelectSeq(edges, LAMBDA edge : InSeq(edge[1], sv_ids) # InSeq(edge[2], sv_ids))

\* isolate_set: the edges with an endpoint outside sv_ids, in input order
isolate_set(sv_ids, edges) ==
    SelectSeq(edges, LAMBDA edge : ~InSeq(edge[1], sv_ids) \/ ~InSeq(edge[2], sv_ids))

\* ------------------------------------------------------ reading graph and cc
Adjacency(graph_, a) == IF DictHas(graph_, a) THEN DictGet(graph_, a) ELSE <<>>

\* a and b are joined by an edge of graph_ (read in either direction)
Linked(graph_, a, b) ==
    /\ DictHas(graph_, a) /\ DictHas(graph_, b)
    /\ InSeq(b, DictGet(graph_, a)) \/ InSeq(a, DictGet(graph_, b))

\* the keys reachable from the keys in S over edges of graph_
RECURSIVE Reach(_, _)
Reach(graph_, S) ==
    LET T == S \cup {b \in DictKeys(graph_) : \E a \in S : Linked(graph_, a, b)}
    IN  IF T = S THEN S ELSE Reach(graph_, T)

Connected(graph_, a, b) == DictHas(graph_, a) /\ b \in Reach(graph_, {a})

SameComponent(cc_, a, b) ==
    \E i \in DOMAIN cc_ : InSeq(a, cc_[i].v) /\ InSeq(b, cc_[i].v)

\* the components as sets of members, whatever their index and order
Membership(cc_) == {SeqSet(cc_[i].v) : i \in DOMAIN cc_}

\* the partition of graph_'s keys by paths of edges
PathPartition(graph_) == {Reach(graph_, {a}) : a \in DictKeys(graph_)}

Symmetric(graph_) ==
    \A a, b \in DictKeys(graph_) :
        InSeq(b, DictGet(graph_, a)) <=> InSeq(a, DictGet(graph_, b))

\* the edge {a, b} is in graph_ in both directions
HasEdge(graph_, a, b) ==
    /\ DictHas(graph_, a) /\ DictHas(graph_, b)
    /\ InSeq(b, DictGet(graph_, a)) /\ InSeq(a, DictGet(graph_, b))

\* the indices of the components of cc_ that hold a
ComponentsOf(cc_, a) == {i \in DOMAIN cc_ : InSeq(a, cc_[i].v)}

\* s without one occurrence-insensitive element: the partners other than x
Without(s, x) == SelectSeq(s, LAMBDA y : y # x)

\* ------------------------------------------------------------ CustomList
\* CustomList.append with check_length keeping the head of the list
CustomListAppend_KeepsOldest(data, item, max_length) ==
    LET d == Append(data, item)
    IN  IF max_length > 0 /\ Len(d) > max_length
        THEN SubSeq(d, 1, max_length)
        ELSE d

\* append followed by check_length: with a max_length only the last
\* max_length entries are kept
CustomListAppend(data, item, max_length) ==
    LET d == Append(data, item)
    IN  IF max_length > 0 /\ Len(d) > max_length
        THEN SubSeq(d, Len(d) - max_length + 1, Len(d))
        ELSE d

\* action_history.max_length
MaxHistory == 10

\* Python's None: what _get_sv_id gives when the cursor is on no segment, and
\* the max_length of a list that has none
None == 0 - 1

\* CustomList(data, max_length): a list object, as a record of its attributes
CustomList(data, max_length) ==
    [data |-> data, unsaved_changes |-> FALSE, max_length |-> max_length]

\* var_names, less the two lists of annotations
VarNames == {"edges_to_set", "edges_to_delete", "action_history"}

\* The methods of CustomList as operators on the record of the object; the
\* result holds obj, the object the attribute is bound to after the statement
\* (self, or what an in-place operator returned), and err, the exception.
Returned(obj) == [obj |-> obj, err |-> ""]

Raised(obj, err) == [obj |-> obj, err |-> err]

\* check_length
check_length(L) ==
    IF L.max_length > 0 /\ Len(L.data) > L.max_length
    THEN [L EXCEPT !.data = SubSeq(@, Len(@) - L.max_length + 1, Len(@))]
    ELSE L

\* attr.append(item)
append(L, item) ==
    Returned(check_length([L EXCEPT !.data = Append(@, item), !.unsaved_changes = TRUE]))

\* attr += other: attr is bound to the CustomList(self._data) __iadd__ returns
__iadd__(L, other) ==
    Returned(CustomList(check_length([L EXCEPT !.data = @ \o other]).data, None))

\* attr.add(other), attr.extend(other): __iadd__ on self, its result dropped
add(L, other) ==
    Returned(check_length([L EXCEPT !.data = @ \o other, !.unsaved_changes = TRUE]))

\* attr -= other: attr is bound to the CustomList(self._data) __isub__ returns
__isub__(L, other) ==
    Returned(CustomList(SelectSeq(L.data, LAMBDA item : ~InSeq(item, other)), None))

\* attr.pop(): the last item
pop(L) ==
    IF L.data = <<>> THEN Raised(L, "IndexError")
    ELSE Returned([L EXCEPT !.data = SubSeq(@, 1, Len(@) - 1), !.unsaved_changes = TRUE])

\* attr.remove(item)
remove(L, item) ==
    IF ~InSeq(item, L.data) THEN Raised(L, "ValueError")
    ELSE Returned([L EXCEPT !.data = RemoveFirst(@, item), !.unsaved_changes = TRUE])

\* attr.update(data)
update(L, data) ==
    Returned(check_length([L EXCEPT !.data = data, !.unsaved_changes = TRUE]))

\* attr[key] = value, key counted from 0
__setitem__(L, key, value) ==
    IF key >= Len(L.data) THEN Raised(L, "IndexError")
    ELSE Returned([L EXCEPT !.data[key + 1] = value, !.unsaved_changes = TRUE])

\* del attr[key]: the flag is set before the item is popped
__delitem__(L, key) ==
    IF key >= Len(L.data) THEN Raised([L EXCEPT !.unsaved_changes = TRUE], "IndexError")
    ELSE Returned([L EXCEPT !.data = SubSeq(@, 1, key) \o SubSeq(@, key + 2, Len(@)),
                            !.unsaved_changes = TRUE])

\* ---------------------------------------------------- NeuronProofreading
\* The handlers are operators on a record S that holds, next to graph, cc,
\* err and path, the session's fields:
\*   action_history  entries [kind, graph, edges]: {'kind': snapshot}, and
\*                   {'split': [edges, snapshot]}
\*   graph_ref       index of the history entry whose snapshot is the very dict
\*                   graph.graph is bound to (0: none): what is done to one is
\*                   done to the other
\*   edges_to_set    entries [loc, ids, alias]: alias holds while loc and ids
\*                   are the list objects of the temporary attributes
\*   threads         the background threads started and not yet run

\* a voxel position; positions play no part in what the handlers decide
Loc == "xyz"

\* in-place changes of graph.graph reach the snapshot bound to the same dict
Synced(S) ==
    IF S.graph_ref = 0 THEN S
    ELSE [S EXCEPT !.action_history[S.graph_ref].graph = S.graph]

\* self.action_history.append({kind: deepcopy(self.graph.graph)})
Push(S, kind, edges) ==
    LET S0 == Synced(S)
        data == CustomListAppend(S0.action_history,
                                 [kind |-> kind, graph |-> S0.graph, edges |-> edges],
                                 MaxHistory)
        dropped == Len(S0.action_history) + 1 - Len(data)
    IN  [S0 EXCEPT !.action_history = data,
                   !.graph_ref = IF @ > dropped THEN @ - dropped ELSE 0]

\* the first component (in dict order) that holds sv, 0 if there is none
FirstComponentOf(cc_, sv) ==
    LET hits == ComponentsOf(cc_, sv)
    IN  IF hits = {} THEN 0 ELSE CHOOSE i \in hits : \A j \in hits : i <= j

StartThread(S, target, svs, edge) ==
    [S EXCEPT !.threads = Append(@, [target |-> target, svs |-> svs, edge |-> edge])]

_add_unconnected_sv_to_neuron(S, sv) ==
    IF sv = None THEN S
    ELSE StartThread(Push(S, "add_segment", <<>>), "_add_to_graph", <<sv>>, <<>>)

_del_sv_from_neuron(S, sv) ==
    IF sv = None \/ ~DictHas(S.graph, sv) THEN S
    ELSE LET S1 == Push(S, "del_segment", <<>>)
             idx == FirstComponentOf(S1.cc, sv)
         IN  IF idx = 0 THEN [S1 EXCEPT !.err = "StopIteration"]
             ELSE Synced(del_node(S1, S1.cc[idx].v))

\* appends to the temporary lists show in every ledger entry made of them
_get_edge_information(S, sv, has_loc) ==
    LET ids == Append(S.set_edge_ids_temp, sv)
        loc == IF has_loc THEN Append(S.set_edge_loc_temp, Loc) ELSE S.set_edge_loc_temp
    IN  [S EXCEPT !.set_edge_ids_temp = ids,
                  !.set_edge_loc_temp = loc,
                  !.edges_to_set = [i \in DOMAIN @ |->
                       IF @[i].alias THEN [loc |-> loc, ids |-> ids, alias |-> TRUE]
                       ELSE @[i]]]

_get_sv1_for_merging(S, sv, has_loc) ==
    _get_edge_information(
        [S EXCEPT !.set_edge_ids_temp = <<>>,
                  !.set_edge_loc_temp = <<>>,
                  !.edges_to_set = [i \in DOMAIN @ |-> [@[i] EXCEPT !.alias = FALSE]]],
        sv, has_loc)

_set_edge(S, edge) == Synced(add_edge(S, FALSE, <<edge>>))

_direct_edge_setting(S) ==
    LET novel_svs == SelectSeq(S.set_edge_ids_temp, LAMBDA sv_id : ~DictHas(S.graph, sv_id))
    IN  IF novel_svs # <<>>
        THEN StartThread(S, "_add_edge_to_novel_sv", novel_svs, S.set_edge_ids_temp)
        ELSE _set_edge(S, S.set_edge_ids_temp)

_direct_merging(S) ==
    LET ids == S.set_edge_ids_temp
    IN  IF InSeq(0, ids) \/ InSeq(None, ids) \/ ids[1] = ids[2] THEN S
        ELSE LET S1 == Push(S, "set", <<>>)
                 kept == SelectSeq(S1.edges_to_set,
                                   LAMBDA edge : SeqSet(edge.ids) # SeqSet(ids))
             IN  _direct_edge_setting(
                     [S1 EXCEPT !.edges_to_set =
                          Append(kept, [loc |-> S.set_edge_loc_temp, ids |-> ids,
                                        alias |-> TRUE])])

_get_sv2_for_merging(S, sv, has_loc) ==
    IF S.set_edge_loc_temp = <<>> THEN S
    ELSE _direct_merging(_get_edge_information(S, sv, has_loc))

\* empty_response: the remote store has no equivalences for the segment, so
\* get_edges gives [segment] and flat_list meets an int
_show_connected_partners(S, segment, empty_response) ==
    IF segment = None \/ segment = 0 THEN S
    ELSE LET S1 == [S EXCEPT !.del_edge_ids = <<segment>>]
         IN  IF ~DictHas(S.graph, segment) /\ empty_response
             THEN [S1 EXCEPT !.err = "TypeError"]
             ELSE S1

_split_merger(S, segment) ==
    IF S.del_edge_ids = <<>> THEN S
    ELSE IF ~(DictHas(S.graph, S.del_edge_ids[1]) /\ DictHas(S.graph, segment)) THEN S
    ELSE IF segment = None \/ segment = 0 THEN S
    ELSE LET ids == Append(S.del_edge_ids, segment)
             S1 == Push([S EXCEPT !.del_edge_ids = ids], "del", <<>>)
             S2 == Synced(del_edge(S1, FALSE, <<ids>>))
         IN  IF S2.err # "" THEN S2
             ELSE [S2 EXCEPT !.edges_to_delete = Append(@, ids),
                             !.del_edge_ids = <<>>]

_confirm_merge_split(S, sv_id) ==
    IF sv_id = 0 THEN S
    ELSE LET cc_id == FirstComponentOf(S.cc, sv_id)
         IN  IF cc_id = 0 THEN [S EXCEPT !.err = "StopIteration"]
             ELSE Synced(del_node(S, S.cc[cc_id].v))

\* segments: the segments shown in the base layer; response: the edges
\* get_edges gives for them; empty_response: the remote store has none, so
\* get_edges gives segments itself and isolate_set meets an int
_remove_merged_group(S, segments, empty_response, response) ==
    LET local == \A i \in DOMAIN segments : DictHas(S.graph, segments[i])
        edge_list == IF local THEN return_edge_list(S.graph, segments) ELSE response
    IN  IF ~local /\ empty_response
        THEN [S EXCEPT !.err = "TypeError"]
        ELSE LET edges_to_remove == isolate_set(segments, edge_list)
                 S1 == Push(S, "split", edges_to_remove)
             IN  Synced(del_node([S1 EXCEPT !.edges_to_delete = @ \o edges_to_remove],
                                 segments))

\* the body of the if: the last entry is taken back
UndoLastEntry(S) ==
      LET n == Len(S.action_history)
          entry == Synced(S).action_history[n]
          S1 == [Synced(S) EXCEPT !.graph = entry.graph, !.graph_ref = n]
          S2 == IF entry.kind = "set"
                THEN IF S1.edges_to_set = <<>> THEN [S1 EXCEPT !.err = "IndexError"]
                     ELSE [S1 EXCEPT !.edges_to_set = SubSeq(@, 1, Len(@) - 1)]
                ELSE IF entry.kind = "del"
                THEN IF S1.edges_to_delete = <<>> THEN [S1 EXCEPT !.err = "IndexError"]
                     ELSE [S1 EXCEPT !.edges_to_delete = SubSeq(@, 1, Len(@) - 1)]
                ELSE IF entry.kind = "split"
                THEN [S1 EXCEPT !.edges_to_delete =
                          SelectSeq(@, LAMBDA item : ~InSeq(item, entry.edges))]
                ELSE S1
          S3 == IF S2.err # "" THEN S2
                ELSE IF S2.graph # <<>> THEN update_cc(S2)
                ELSE [S2 EXCEPT !.cc = <<>>]
      IN  IF S3.err # "" THEN S3
          ELSE [S3 EXCEPT !.action_history = SubSeq(@, 1, n - 1), !.graph_ref = 0]

\* _undo_last_action without its test of the history: action_history[-1] of
\* an empty list
_undo_last_action_Unguarded(S) ==
    IF S.action_history = <<>> THEN [S EXCEPT !.err = "IndexError"]
    ELSE UndoLastEntry(S)

\* if any(self.action_history): the entries are dicts of one key
_undo_last_action(S) ==
    IF S.action_history = <<>> THEN S
    ELSE UndoLastEntry(S)

\* ------------------------------------------------------------ GraphTools
\* int_to_list of an int
int_to_list(x) == <<x>>

\* get_edges(ids) for one segment id; empty_response: get_equivalence_list
\* raises EmptyResponse, response: the edges it gives otherwise
get_edges(ids, empty_response, response) ==
    IF empty_response THEN int_to_list(ids) ELSE response

\* get_graph(sv_id) for one segment id; members: get_members(sv_id)[sv_id].
\* get_edges is called with the list members, which int_to_list gives back
get_graph(sv_id, members, empty_response, response) ==
    <<[k |-> sv_id, v |-> IF empty_response THEN members ELSE response]>>

\* get_graph(sv) is a dict with the one key sv, whatever the remote store
\* answers (the answer for a segment without equivalences stands for all);
\* _add_novel_sv_to_graph reads its key 0, which a segment id (never 0) is not
_add_novel_sv_to_graph(S, sv) ==
    LET edges == get_graph(sv, <<sv>>, TRUE, <<>>)
    IN  IF S.err # "" THEN S
        ELSE IF ~DictHas(edges, 0) THEN [S EXCEPT !.err = "KeyError"]
        ELSE S

_add_to_graph(S, sv) == _add_novel_sv_to_graph(S, sv)

RECURSIVE AddNovel(_, _)
AddNovel(S, novel_svs) ==
    IF S.err # "" \/ novel_svs = <<>> THEN S
    ELSE AddNovel(_add_novel_sv_to_graph(S, Head(novel_svs)), Tail(novel_svs))

_add_edge_to_novel_sv(S, novel_svs, edge) ==
    LET S1 == AddNovel(S, novel_svs)
    IN  IF S1.err # "" THEN S1 ELSE _set_edge(S1, edge)

\* ----------------------------------------------------------- _load_data
\* data: the dict of an earlier session, as a record: names are the keys of
\* var_names it has, not_lists those of them whose value cannot be iterated,
\* lists their values; has_graph: the key 'neuron_graph' is there

\* the for loop of _load_data over the names left, up to its first exception
RECURSIVE LoadLists(_, _, _)
LoadLists(S, data, left) ==
    IF left = <<>> THEN S
    ELSE LET name == Head(left)
         IN  IF name \notin data.names THEN [S EXCEPT !.err = "KeyError"]
             ELSE IF name \in data.not_lists THEN [S EXCEPT !.err = "TypeError"]
             ELSE LoadLists(
                      IF name = "edges_to_set"
                      THEN [S EXCEPT !.edges_to_set = data.lists.edges_to_set]
                      ELSE IF name = "edges_to_delete"
                      THEN [S EXCEPT !.edges_to_delete = data.lists.edges_to_delete]
                      ELSE [S EXCEPT !.action_history = data.lists.action_history,
                                     !.graph_ref = 0],
                      data, Tail(left))

\* path "except": the except clause ran and load_data_msg holds its message
_load_data(S, data) ==
    LET S1 == LoadLists(S, data, <<"edges_to_set", "edges_to_delete", "action_history">>)
        S2 == IF S1.err # "" THEN S1
              ELSE IF ~data.has_graph THEN [S1 EXCEPT !.err = "KeyError"]
              ELSE update_cc([S1 EXCEPT !.graph = data.neuron_graph, !.graph_ref = 0])
    IN  IF S2.err # "" THEN [S2 EXCEPT !.err = "", !.path = "except"]
        ELSE [S2 EXCEPT !.path = ""]

\* ------------------------------------------------------------------ state
VARIABLES
    graph,      \* LocalGraph.graph
    cc,         \* LocalGraph.cc
    raised,     \* exception raised by the last call, "" if it returned
    last,       \* the last call: its name and the branch its last cc update took
    action_history,     \* NeuronProofreading.action_history
    graph_ref,          \* the history entry bound to the same dict as graph
    edges_to_set,       \* NeuronProofreading.edges_to_set
    edges_to_delete,    \* NeuronProofreading.edges_to_delete
    del_edge_ids,       \* NeuronProofreading.del_edge_ids
    set_edge_ids_temp,  \* NeuronProofreading.set_edge_ids_temp
    set_edge_loc_temp,  \* NeuronProofreading.set_edge_loc_temp
    threads,            \* background threads started and not yet run
    nacts,              \* number of user actions handled so far
    sv_ids,             \* isolate_set: argument sv_ids
    edge_list,          \* isolate_set: argument edges
    edges_to_split,     \* isolate_set: the list it returned
    pc,         \* the handler running on the viewer's thread: where it stands
    save_pc,    \* the timer's thread: where it stands in _auto_save
    lock,       \* NeuronProofreading.lock: the thread holding it, "" if free
    saved,      \* what the last _save_data wrote, and where the handler stood
    unsaved,    \* unsaved_changes of the lists the ledger attributes hold
    ledger,     \* an attribute holding a CustomList, followed on its own
    loop        \* connected_components: where a call stands, and its locals

np_vars == <<action_history, graph_ref, edges_to_set, edges_to_delete, del_edge_ids,
             set_edge_ids_temp, set_edge_loc_temp, threads, nacts>>

\* the arguments and the result of a call of isolate_set
fn_vars == <<sv_ids, edge_list, edges_to_split>>

\* the threads of a session with the timer running, and the flags _auto_save
\* reads; followed in the specification of saving only
save_vars == <<pc, save_pc, lock, saved, unsaved>>

vars == <<graph, cc, raised, last, np_vars, fn_vars, save_vars, ledger, loop>>

\* the session fields of a NeuronProofreading that has done nothing yet
FreshSession ==
    /\ action_history = <<>>
    /\ graph_ref = 0
    /\ edges_to_set = <<>>
    /\ edges_to_delete = <<>>
    /\ del_edge_ids = <<>>
    /\ set_edge_ids_temp = <<>>
    /\ set_edge_loc_temp = <<>>
    /\ threads = <<>>
    /\ nacts = 0
    /\ pc = [at |-> "idle", segments |-> <<>>, edges |-> <<>>]
    /\ save_pc = "idle"
    /\ lock = ""
    /\ saved = [written |-> FALSE, lists |-> [name \in VarNames |-> <<>>],
                graph |-> <<>>, at_copy |-> "idle", at_dump |-> "idle", during |-> 0]
    /\ unsaved = [name \in VarNames |-> FALSE]
    /\ ledger = CustomList(<<>>, None)
    /\ loop = NotCalled

\* isolate_set was not called
NothingIsolated ==
    /\ sv_ids = <<>>
    /\ edge_list = <<>>
    /\ edges_to_split = <<>>

\* ----------------------------------------------------------------- inputs
SeqsUpTo(S, n) == UNION {[1..m -> S] : m \in 0..n}

\* a single id stands for the one-element list int_to_list makes of it
NodeLists == SeqsUpTo(Ids, MaxNodes) \ {<<>>}

\* an edge: two distinct ids
Pairs == {e \in [1..2 -> Ids] : e[1] # e[2]}

EdgeLists == SeqsUpTo(Pairs, MaxEdges) \ {<<>>}

\* --------------------------------------------------- LocalGraph as a machine
Cur == [graph |-> graph, cc |-> cc, err |-> "", path |-> ""]

Becomes(result, op) == \E s \in {result} :
    /\ graph' = s.graph
    /\ cc' = s.cc
    /\ raised' = s.err
    /\ last' = [op |-> op, path |-> s.path]
    /\ UNCHANGED <<np_vars, fn_vars, save_vars, ledger, loop>>

\* LocalGraph.__init__
Init ==
    /\ graph = <<>>
    /\ cc = <<>>
    /\ raised = ""
    /\ last = [op |-> "init", path |-> ""]
    /\ FreshSession
    /\ NothingIsolated

AddNode == \E node \in NodeLists : Becomes(add_node(Cur, node), "add_node")

DelNode == \E node \in NodeLists : Becomes(del_node(Cur, node), "del_node")

AddEdge ==
    \/ \E edge \in Pairs : Becomes(add_edge(Cur, FALSE, <<edge>>), "add_edge")
    \/ \E edges \in EdgeLists : Becomes(add_edge(Cur, TRUE, edges), "add_edge")

DelEdge ==
    \/ \E edge \in Pairs : Becomes(del_edge(Cur, FALSE, <<edge>>), "del_edge")
    \/ \E edges \in EdgeLists : Becomes(del_edge(Cur, TRUE, edges), "del_edge")

Next == AddNode \/ DelNode \/ AddEdge \/ DelEdge

Spec == Init /\ [][Next]_vars

\* --------------------------- LocalGraph with every input, a few calls long
\* The calls of Spec over the ids 1..MaxKeys, with the inputs Spec leaves
\* out (the empty list, an edge from an id to itself); such inputs let cc grow
\* with every call, so a run is MaxCalls calls long.
KeyIds == 1..MaxKeys

AnyNodeLists == SeqsUpTo(KeyIds, MaxNodes)

\* a list of two ids, the same id twice included
AnyPairs == [1..2 -> KeyIds]

\* a flat edge argument: a pair, or the empty list
FlatEdges == AnyPairs \cup {<<>>}

AnyEdgeLists == SeqsUpTo(AnyPairs, MaxEdges) \ {<<>>}

Called(result, op) ==
    /\ nacts < MaxCalls
    /\ nacts' = nacts + 1
    /\ \E s \in {result} :
         /\ graph' = s.graph
         /\ cc' = s.cc
         /\ raised' = s.err
         /\ last' = [op |-> op, path |-> s.path]
    /\ UNCHANGED <<action_history, graph_ref, edges_to_set, edges_to_delete,
                   del_edge_ids, set_edge_ids_temp, set_edge_loc_temp, threads, fn_vars,
                   save_vars, ledger, loop>>

AddNodeAny == \E node \in AnyNodeLists : Called(add_node(Cur, node), "add_node")

DelNodeAny == \E node \in AnyNodeLists : Called(del_node(Cur, node), "del_node")

AddEdgeAny ==
    \/ \E edge \in FlatEdges : Called(add_edge(Cur, FALSE, <<edge>>), "add_edge")
    \/ \E edges \in AnyEdgeLists : Called(add_edge(Cur, TRUE, edges), "add_edge")

DelEdgeAny ==
    \/ \E edge \in FlatEdges : Called(del_edge(Cur, FALSE, <<edge>>), "del_edge")
    \/ \E edges \in AnyEdgeLists : Called(del_edge(Cur, TRUE, edges), "del_edge")

NextLG == AddNodeAny \/ DelNodeAny \/ AddEdgeAny \/ DelEdgeAny

SpecLG == Init /\ [][NextLG]_vars

\* ------------------------------------- connected_components on its own
\* Inputs: every symmetric graph without self-loops on a subset of
\* 1..MaxKeys, in every key order and every order of the partner lists.
Perms(S) == {p \in [1..Cardinality(S) -> S] : \A i, j \in DOMAIN p : p[i] = p[j] => i = j}

Neighbours(E, a) == {b \in UNION E : {a, b} \in E /\ b # a}

RECURSIVE GraphsOver(_, _, _)
GraphsOver(ks, E, i) ==
    IF i > Len(ks) THEN {<<>>}
    ELSE {<<[k |-> ks[i], v |-> p]>> \o rest :
             p \in Perms(Neighbours(E, ks[i])), rest \in GraphsOver(ks, E, i + 1)}

\* the sets of edges {a, b}, a # b, over the keys K
EdgeSets(K) == SUBSET {e \in SUBSET K : Cardinality(e) = 2}

InitCC ==
    /\ \E K \in SUBSET (1..MaxKeys) : \E ks \in Perms(K), E \in EdgeSets(K) :
         graph \in GraphsOver(ks, E, 1)
    /\ cc = <<>>
    /\ raised = ""
    /\ last = [op |-> "init", path |-> ""]
    /\ FreshSession
    /\ NothingIsolated

Components ==
    /\ last.op = "init"
    /\ \E r \in {connected_components(graph)} :
         /\ cc' = r.cc
         /\ raised' = r.err
    /\ last' = [op |-> "connected_components", path |-> ""]
    /\ UNCHANGED <<graph, np_vars, fn_vars, save_vars, ledger, loop>>

NextCC == Components

SpecCC == InitCC /\ [][NextCC]_vars

\* ------------------------------------------- LocalGraph that only grows
\* add_node with ids that are no keys yet and add_edge with edges of two
\* different ids (one edge, or a list of edges), from the empty graph on.
NewNodeLists ==
    {node \in AnyNodeLists \ {<<>>} :
        /\ \A i \in DOMAIN node : ~DictHas(graph, node[i])
        /\ \A i, j \in DOMAIN node : node[i] = node[j] => i = j}

ProperPairs == {e \in AnyPairs : e[1] # e[2]}

GrowNode == \E node \in NewNodeLists : Becomes(add_node(Cur, node), "add_node")

GrowEdge ==
    \/ \E edge \in ProperPairs : Becomes(add_edge(Cur, FALSE, <<edge>>), "add_edge")
    \/ \E edges \in SeqsUpTo(ProperPairs, MaxEdges + 1) \ {<<>>} :
           Becomes(add_edge(Cur, TRUE, edges), "add_edge")

NextGR == GrowNode \/ GrowEdge

SpecGR == Init /\ [][NextGR]_vars

\* --------------------------------- connected_components, pass by pass
\* A call of connected_components on a graph as LocalGraph keeps it: not
\* empty, symmetric, every partner a key. Each pass of the outer loop is a
\* step; the call goes on as long as it has a step to take.
InitCT ==
    /\ InitCC
    /\ graph # <<>>

CTStep(st) ==
    /\ loop' = st
    /\ UNCHANGED <<graph, cc, raised, last, np_vars, fn_vars, save_vars, ledger>>

CTCall ==
    /\ loop.at = "idle"
    /\ CTStep(CCEnter(graph))

CTPass ==
    /\ loop.at = "while"
    /\ CTStep(CCPass(graph, loop))

\* return cc
CTReturn ==
    /\ loop.at = "exit"
    /\ loop' = [loop EXCEPT !.at = "returned"]
    /\ cc' = loop.cc
    /\ last' = [op |-> "connected_components", path |-> ""]
    /\ UNCHANGED <<graph, raised, np_vars, fn_vars, save_vars, ledger>>

NextCT == CTCall \/ CTPass \/ CTReturn

SpecCT == InitCT /\ [][NextCT]_vars /\ WF_vars(NextCT)

\* ------------------------------------------------ isolate_set on its own
\* Inputs: every list of ids of up to MaxNodes entries with every list of up
\* to MaxBatch edges over the same ids (an id twice in an edge included), and
\* the worked example of the specification.
ExampleIds == <<1, 2, 3>>

ExampleEdges == <<<<1, 2>>, <<2, 3>>, <<3, 4>>, <<5, 6>>>>

InitIS ==
    /\ \/ /\ sv_ids \in SeqsUpTo(Ids, MaxNodes)
          /\ edge_list \in SeqsUpTo([1..2 -> Ids], MaxBatch)
       \/ /\ sv_ids = ExampleIds
          /\ edge_list = ExampleEdges
    /\ edges_to_split = <<>>
    /\ graph = <<>>
    /\ cc = <<>>
    /\ raised = ""
    /\ last = [op |-> "init", path |-> ""]
    /\ FreshSession

Isolate ==
    /\ last.op = "init"
    /\ edges_to_split' = isolate_set(sv_ids, edge_list)
    /\ last' = [op |-> "isolate_set", path |-> ""]
    /\ UNCHANGED <<graph, cc, raised, np_vars, sv_ids, edge_list, save_vars, ledger, loop>>

NextIS == Isolate

SpecIS == InitIS /\ [][NextIS]_vars

\* ------------------------------------------- NeuronProofreading as a machine
\* what _get_sv_id can give: a segment id, 0 off every segment, or None
Cursor == Ids \cup {0, None}

\* the segments shown in the base layer, in the order list() gives them
SegmentLists == {seg \in SeqsUpTo(Ids, MaxNodes) :
                    \A i, j \in DOMAIN seg : seg[i] = seg[j] => i = j}

CurNP ==
    [graph |-> graph, cc |-> cc, err |-> "", path |-> "",
     action_history |-> action_history, graph_ref |-> graph_ref,
     edges_to_set |-> edges_to_set, edges_to_delete |-> edges_to_delete,
     del_edge_ids |-> del_edge_ids, set_edge_ids_temp |-> set_edge_ids_temp,
     set_edge_loc_temp |-> set_edge_loc_temp, threads |-> threads]

Assign(S, op) ==
    /\ graph' = S.graph
    /\ cc' = S.cc
    /\ raised' = S.err
    /\ last' = [op |-> op, path |-> S.path]
    /\ action_history' = S.action_history
    /\ graph_ref' = S.graph_ref
    /\ edges_to_set' = S.edges_to_set
    /\ edges_to_delete' = S.edges_to_delete
    /\ del_edge_ids' = S.del_edge_ids
    /\ set_edge_ids_temp' = S.set_edge_ids_temp
    /\ set_edge_loc_temp' = S.set_edge_loc_temp
    /\ threads' = S.threads

Install(S, op) ==
    /\ Assign(S, op)
    /\ UNCHANGED <<fn_vars, save_vars, ledger, loop>>

\* a key press: the handler runs to its end on the viewer's thread
Handled(result, op) ==
    /\ nacts < MaxActions
    /\ nacts' = nacts + 1
    /\ \E S \in {result} : Install(S, op)

\* __init__ with the data of an earlier session: _load_data binds graph.graph
\* to data['neuron_graph'] and calls update_cc, which fails on an empty graph
\* and leaves cc as LocalGraph() made it
InitNP ==
    /\ \E K \in SUBSET Ids : \E E \in EdgeSets(K) :
         graph = [i \in 1..Cardinality(K) |->
                    LET a == CHOOSE x \in K : Cardinality({y \in K : y < x}) = i - 1
                    IN  [k |-> a,
                         v |-> [j \in 1..Cardinality(Neighbours(E, a)) |->
                                  CHOOSE x \in Neighbours(E, a) :
                                     Cardinality({y \in Neighbours(E, a) : y < x}) = j - 1]]]
    /\ cc = connected_components(graph).cc
    /\ raised = ""
    /\ last = [op |-> "init", path |-> ""]
    /\ FreshSession
    /\ NothingIsolated

AddSegment == \E sv \in Ids \cup {None} :
    Handled(_add_unconnected_sv_to_neuron(CurNP, sv), "_add_unconnected_sv_to_neuron")

DelSegment == \E sv \in Cursor :
    Handled(_del_sv_from_neuron(CurNP, sv), "_del_sv_from_neuron")

FirstSegment == \E sv \in Cursor, has_loc \in BOOLEAN :
    Handled(_get_sv1_for_merging(CurNP, sv, has_loc), "_get_sv1_for_merging")

SecondSegment == \E sv \in Cursor, has_loc \in BOOLEAN :
    Handled(_get_sv2_for_merging(CurNP, sv, has_loc), "_get_sv2_for_merging")

ShowPartners == \E segment \in Cursor, empty_response \in BOOLEAN :
    Handled(_show_connected_partners(CurNP, segment, empty_response),
            "_show_connected_partners")

SplitMerger == \E segment \in Cursor :
    Handled(_split_merger(CurNP, segment), "_split_merger")

ConfirmMergeSplit == \E sv_id \in Cursor :
    Handled(_confirm_merge_split(CurNP, sv_id), "_confirm_merge_split")

RemoveMergedGroup ==
    \E segments \in SegmentLists, empty_response \in BOOLEAN,
       response \in SeqsUpTo(Pairs, MaxEdges) :
        /\ empty_response => response = <<>>
        /\ Handled(_remove_merged_group(CurNP, segments, empty_response, response),
                   "_remove_merged_group")

Undo == Handled(_undo_last_action(CurNP), "_undo_last_action")

\* a background thread runs to its end (or to the exception that ends it)
ThreadRuns == \E i \in DOMAIN threads :
    LET t == threads[i]
        S == [CurNP EXCEPT !.threads = SubSeq(@, 1, i - 1) \o SubSeq(@, i + 1, Len(@))]
    IN  /\ \E R \in {IF t.target = "_add_to_graph"
                     THEN _add_to_graph(S, t.svs[1])
                     ELSE _add_edge_to_novel_sv(S, t.svs, t.edge)} :
             Install(R, t.target)
        /\ UNCHANGED nacts

NextNP ==
    \/ AddSegment \/ DelSegment \/ FirstSegment \/ SecondSegment
    \/ ShowPartners \/ SplitMerger \/ ConfirmMergeSplit \/ RemoveMergedGroup
    \/ Undo \/ ThreadRuns

SpecNP == InitNP /\ [][NextNP]_vars


\* -------------------------------------------- the action history, filled
\* A session in which the user deletes segments, splits groups of segments of
\* the neuron (the base layer shows keys of the graph, or nothing) and undoes:
\* no remote request is made, and the history can fill up.
Pressed(result, op) ==
    /\ \E S \in {result} : Install(S, op)
    /\ UNCHANGED nacts

LocalSegmentLists == {seg \in SegmentLists : check_in_graph(graph, seg)}

PressDelSegment == \E sv \in Cursor :
    Pressed(_del_sv_from_neuron(CurNP, sv), "_del_sv_from_neuron")

PressRemoveMergedGroup == \E segments \in LocalSegmentLists :
    Pressed(_remove_merged_group(CurNP, segments, FALSE, <<>>), "_remove_merged_group")

PressUndo == Pressed(_undo_last_action(CurNP), "_undo_last_action")

NextAH == PressDelSegment \/ PressRemoveMergedGroup \/ PressUndo

SpecAH == InitNP /\ [][NextAH]_vars

\* ------------------------------------------------ edges set by the user
\* A session in which the user only sets edges: the two selection keys in any
\* order and any number of times in a row, on any cursor, and the undo key.
Selected(result, op) ==
    /\ nacts < MaxSelections
    /\ nacts' = nacts + 1
    /\ \E S \in {result} : Install(S, op)

SelectFirst == \E sv \in Cursor, has_loc \in BOOLEAN :
    Selected(_get_sv1_for_merging(CurNP, sv, has_loc), "_get_sv1_for_merging")

SelectSecond == \E sv \in Cursor, has_loc \in BOOLEAN :
    Selected(_get_sv2_for_merging(CurNP, sv, has_loc), "_get_sv2_for_merging")

SelectUndo == Selected(_undo_last_action(CurNP), "_undo_last_action")

NextES == SelectFirst \/ SelectSecond \/ SelectUndo \/ ThreadRuns

SpecES == InitNP /\ [][NextES]_vars

\* ----------------------------------------- edges cut and set by the user
\* A session of MaxCalls key presses in which the user cuts edges (the two
\* keys of _show_connected_partners and _split_merger), sets edges, splits
\* groups of segments of the neuron and undoes.
Keyed(result, op) ==
    /\ nacts < MaxCalls
    /\ nacts' = nacts + 1
    /\ \E S \in {result} : Install(S, op)

KeyShowPartners == \E segment \in Cursor :
    Keyed(_show_connected_partners(CurNP, segment, FALSE), "_show_connected_partners")

KeySplitMerger == \E segment \in Cursor :
    Keyed(_split_merger(CurNP, segment), "_split_merger")

KeyFirstSegment == \E sv \in Cursor :
    Keyed(_get_sv1_for_merging(CurNP, sv, TRUE), "_get_sv1_for_merging")

KeySecondSegment == \E sv \in Cursor :
    Keyed(_get_sv2_for_merging(CurNP, sv, TRUE), "_get_sv2_for_merging")

KeyRemoveMergedGroup == \E segments \in LocalSegmentLists :
    Keyed(_remove_merged_group(CurNP, segments, FALSE, <<>>), "_remove_merged_group")

KeyUndo == Keyed(_undo_last_action(CurNP), "_undo_last_action")

NextSM ==
    \/ KeyShowPartners \/ KeySplitMerger \/ KeyFirstSegment \/ KeySecondSegment
    \/ KeyRemoveMergedGroup \/ KeyUndo \/ ThreadRuns

SpecSM == InitNP /\ [][NextSM]_vars

\* ------------------------------------------- the session with its timer
\* The viewer's thread runs the handlers statement by statement, the timer's
\* thread runs _auto_save; a thread switch can fall between any two steps.
Idle == [at |-> "idle", segments |-> <<>>, edges |-> <<>>]

\* a step of a handler: the fields it assigns, and where the handler then is
HandlerStep(S, op, then, flags) ==
    /\ \E R \in {S} : Assign(R, op)
    /\ pc' = then
    /\ unsaved' = flags
    /\ UNCHANGED <<fn_vars, save_pc, lock, saved, ledger, loop>>

\* a key press: the handler starts
Starts ==
    /\ pc.at = "idle"
    /\ nacts < MaxActions
    /\ nacts' = nacts + 1

\* the handler goes on
Continues(at) ==
    /\ pc.at = at
    /\ UNCHANGED nacts

\* _remove_merged_group up to self.action_history.append(...)
SplitGroupPushes == \E segments \in LocalSegmentLists :
    LET edges_to_remove == isolate_set(segments, return_edge_list(graph, segments))
    IN  /\ Starts
        /\ HandlerStep(Push(CurNP, "split", edges_to_remove), "_remove_merged_group",
                       [at |-> "pushed", segments |-> segments, edges |-> edges_to_remove],
                       [unsaved EXCEPT !.action_history = TRUE])

\* self.edges_to_delete += edges_to_remove: the attribute is bound to the
\* list __iadd__ returns, a new CustomList
SplitGroupListsEdges ==
    /\ Continues("pushed")
    /\ HandlerStep([CurNP EXCEPT !.edges_to_delete = @ \o pc.edges],
                   "_remove_merged_group", [pc EXCEPT !.at = "listed"],
                   [unsaved EXCEPT !.edges_to_delete =
                        CustomList(edges_to_delete \o pc.edges, None).unsaved_changes])

\* self.graph.del_node(segments)
SplitGroupDeletes ==
    /\ Continues("listed")
    /\ HandlerStep(Synced(del_node(CurNP, pc.segments)), "_remove_merged_group",
                   Idle, unsaved)

\* _del_sv_from_neuron up to self.action_history.append(...)
DelSegmentPushes == \E sv \in DictKeys(graph) :
    /\ Starts
    /\ HandlerStep(Push(CurNP, "del_segment", <<>>), "_del_sv_from_neuron",
                   [at |-> "del_pushed", segments |-> <<sv>>, edges |-> <<>>],
                   [unsaved EXCEPT !.action_history = TRUE])

\* idx = next(...); members = self.graph.cc[idx]; self.graph.del_node(members)
DelSegmentDeletes ==
    /\ Continues("del_pushed")
    /\ LET idx == FirstComponentOf(cc, pc.segments[1])
       IN  HandlerStep(IF idx = 0 THEN [CurNP EXCEPT !.err = "StopIteration"]
                       ELSE Synced(del_node(CurNP, cc[idx].v)),
                       "_del_sv_from_neuron", Idle, unsaved)

\* _confirm_merge_split: cc_id = next(...); self.graph.del_node(...); no list
\* of var_names is touched
ConfirmSplitDeletes == \E sv_id \in DictKeys(graph) :
    /\ Starts
    /\ HandlerStep(_confirm_merge_split(CurNP, sv_id), "_confirm_merge_split",
                   Idle, unsaved)

\* a step of the timer's thread
TimerStep(then) ==
    /\ save_pc' = then
    /\ UNCHANGED <<graph, cc, raised, last, np_vars, fn_vars, pc, ledger, loop>>

\* _auto_save: if any(changes): with self.lock:
AutoSaveTakesLock ==
    /\ save_pc = "idle"
    /\ \E name \in VarNames : unsaved[name]
    /\ lock = ""
    /\ lock' = "timer"
    /\ TimerStep("locked")
    /\ UNCHANGED <<saved, unsaved>>

\* _save_data: new_data[name] = list(getattr(self, name)) for the names
SaveCopiesLists ==
    /\ save_pc = "locked"
    /\ saved' = [written |-> FALSE,
                 lists |-> [name \in VarNames |->
                              IF name = "edges_to_set" THEN edges_to_set
                              ELSE IF name = "edges_to_delete" THEN edges_to_delete
                              ELSE action_history],
                 graph |-> <<>>, at_copy |-> pc.at, at_dump |-> "idle",
                 during |-> saved.during]
    /\ TimerStep("copied")
    /\ UNCHANGED <<lock, unsaved>>

\* new_data['neuron_graph'] = self.graph.graph; json.dump(new_data, f)
SaveDumps ==
    /\ save_pc = "copied"
    /\ saved' = [saved EXCEPT !.written = TRUE, !.graph = graph, !.at_dump = pc.at]
    /\ TimerStep("dumped")
    /\ UNCHANGED <<lock, unsaved>>

\* the flags are set to False, the with block ends; during: the key press
\* whose handler was running then, 0 if none was
SaveClearsFlags ==
    /\ save_pc = "dumped"
    /\ unsaved' = [name \in VarNames |-> FALSE]
    /\ lock' = ""
    /\ saved' = [saved EXCEPT !.during = IF pc.at = "idle" THEN 0 ELSE nacts]
    /\ TimerStep("idle")

NextSV ==
    \/ SplitGroupPushes \/ SplitGroupListsEdges \/ SplitGroupDeletes
    \/ DelSegmentPushes \/ DelSegmentDeletes \/ ConfirmSplitDeletes
    \/ AutoSaveTakesLock \/ SaveCopiesLists \/ SaveDumps \/ SaveClearsFlags

SpecSV == InitNP /\ [][NextSV]_vars

\* ------------------------------------------------- a session is loaded
\* graphs as a file can hold them: a partner need not be a key
StoredGraphs ==
    UNION {{g \in [1..Len(ks) -> [k : Ids, v : SeqsUpTo(Ids, MaxEdges)]] :
               \A i \in DOMAIN ks : g[i].k = ks[i]} :
           ks \in UNION {Perms(K) : K \in SUBSET Ids}}

StoredLists ==
    [edges_to_set : {<<>>, <<[loc |-> <<Loc, Loc>>, ids |-> <<1, 2>>, alias |-> FALSE]>>},
     edges_to_delete : {<<>>, <<<<1, 2>>>>},
     action_history : {<<>>, <<[kind |-> "add_segment", graph |-> <<>>, edges |-> <<>>]>>}]

PersistedData ==
    [names : SUBSET VarNames, not_lists : SUBSET VarNames, lists : StoredLists,
     has_graph : BOOLEAN, neuron_graph : StoredGraphs]

\* __init__ with data: _load_data(data), twice (lines 186 and 207)
LoadData == \E data \in PersistedData :
    /\ last.op = "init"
    /\ data.not_lists \subseteq data.names
    /\ ~data.has_graph => data.neuron_graph = <<>>
    /\ Install(_load_data(_load_data(CurNP, data), data), "_load_data")
    /\ UNCHANGED nacts

NextLD == LoadData

SpecLD == Init /\ [][NextLD]_vars

\* ------------------------------------------- return_edge_list is called
\* a LocalGraph whose graph is any graph a file can hold
InitRE ==
    /\ graph \in StoredGraphs
    /\ cc = connected_components(graph).cc
    /\ raised = ""
    /\ last = [op |-> "init", path |-> ""]
    /\ FreshSession
    /\ NothingIsolated

\* edges = self.return_edge_list(node): node in sv_ids, edges in edge_list
ReturnEdgeList == \E node \in SeqsUpTo(KeyIds, MaxNodes) :
    /\ last.op = "init"
    /\ sv_ids' = node
    /\ edge_list' = return_edge_list(graph, node)
    /\ last' = [op |-> "return_edge_list", path |-> ""]
    /\ UNCHANGED <<graph, cc, raised, np_vars, edges_to_split, save_vars, ledger, loop>>

NextRE == ReturnEdgeList

SpecRE == InitRE /\ [][NextRE]_vars

\* -------------------------------------------- an attribute with a list
\* Statements on one attribute that holds a CustomList, as the session has
\* them for its ledgers, and the save that clears the flag.
Stated(result, op) == \E r \in {result} :
    /\ ledger' = r.obj
    /\ raised' = r.err
    /\ last' = [op |-> op, path |-> ""]
    /\ UNCHANGED <<graph, cc, np_vars, fn_vars, save_vars, loop>>

Items == SeqsUpTo(Ids, MaxNodes)

Grows(other) == Len(ledger.data) + Len(other) <= MaxLedger

\* self.action_history.max_length = 10, with a smaller length
SetMaxLength ==
    /\ last.op = "init"
    /\ Stated(Returned([ledger EXCEPT !.max_length = MaxKeep]), "max_length")

StatedAppend == \E item \in Ids :
    Grows(<<item>>) /\ Stated(append(ledger, item), "append")

StatedIAdd == \E other \in Items :
    Grows(other) /\ Stated(__iadd__(ledger, other), "__iadd__")

StatedAdd == \E other \in Items :
    Grows(other) /\ Stated(add(ledger, other), "add")

StatedISub == \E other \in Items : Stated(__isub__(ledger, other), "__isub__")

StatedPop == Stated(pop(ledger), "pop")

StatedRemove == \E item \in Ids : Stated(remove(ledger, item), "remove")

StatedUpdate == \E data \in Items : Stated(update(ledger, data), "update")

StatedSetItem == \E key \in 0..(MaxLedger - 1), value \in Ids :
    Stated(__setitem__(ledger, key, value), "__setitem__")

StatedDelItem == \E key \in 0..(MaxLedger - 1) :
    Stated(__delitem__(ledger, key), "__delitem__")

\* _save_data: setattr(getattr(self, name), 'unsaved_changes', False)
StatedSaved ==
    /\ ledger.unsaved_changes
    /\ Stated(Returned([ledger EXCEPT !.unsaved_changes = FALSE]), "_save_data")

NextCL ==
    \/ SetMaxLength \/ StatedAppend \/ StatedIAdd \/ StatedAdd \/ StatedISub
    \/ StatedPop \/ StatedRemove \/ StatedUpdate \/ StatedSetItem \/ StatedDelItem
    \/ StatedSaved

SpecCL == Init /\ [][NextCL]_vars

\* ---------------------------------------------------------------- claims

\* C1: after every add_node, add_edge, del_node or del_edge call, in any
\* sequence from the empty graph, two ids are in the same cc component iff a
\* path of edges of graph connects them, and every graph key is a member of
\* exactly one component.
C1_PartitionMatchesGraph ==
    /\ \A a, b \in Ids : SameComponent(cc, a, b) <=> Connected(graph, a, b)
    /\ \A a \in DictKeys(graph) : Cardinality(ComponentsOf(cc, a)) = 1

\* C2: after every LocalGraph operation adjacency is symmetric: b is in
\* graph[a] exactly when a is in graph[b].
C2_AdjacencySymmetric == Symmetric(graph)

\* C4: a del_node or del_edge call that leaves or finds the graph empty returns
\* normally with cc = {} (the partition of the empty graph is empty, no error).
C4_EmptyGraphEmptyPartition ==
    (last.op \in {"del_node", "del_edge"} /\ graph = <<>>)
        => (raised = "" /\ cc = <<>>)

\* the handler whose result is S1 pushed a snapshot on action_history
Pushed(S1) == Len(S1.action_history) = Len(action_history) + 1

\* the next key press after the handler whose result is S1 is undo
UndoAfter(S1) == _undo_last_action([S1 EXCEPT !.err = "", !.path = ""])

\* the undo after S1 gives back the graph and the components of the state
\* the handler started in
UndoRestores(S1) ==
    Pushed(S1) =>
        /\ UndoAfter(S1).graph = graph
        /\ Membership(UndoAfter(S1).cc) = Membership(cc)

\* C5: for every history-pushing action (add segment, delete segment, set
\* edge, delete edge, split group) performed with no background fetch pending,
\* an immediately following undo leaves graph equal to the snapshot taken
\* before the action and cc equal in membership (whatever the indices) to the
\* components before the action.
C5_UndoRestoresGraphAndComponents ==
    threads = <<>> =>
        /\ \A sv \in Ids \cup {None} :
               UndoRestores(_add_unconnected_sv_to_neuron(CurNP, sv))
        /\ \A sv \in Cursor : UndoRestores(_del_sv_from_neuron(CurNP, sv))
        /\ \A sv \in Cursor, has_loc \in BOOLEAN :
               UndoRestores(_get_sv2_for_merging(CurNP, sv, has_loc))
        /\ \A segment \in Cursor : UndoRestores(_split_merger(CurNP, segment))
        /\ \A segments \in SegmentLists, response \in SeqsUpTo(Pairs, MaxEdges) :
               UndoRestores(_remove_merged_group(CurNP, segments, FALSE, response))

\* cc is the partition of graph's keys by paths, each key listed once
ConsistentState ==
    /\ Symmetric(graph)
    /\ Membership(cc) = PathPartition(graph)
    /\ \A a \in DictKeys(graph) : Cardinality(ComponentsOf(cc, a)) = 1
    /\ \A i \in DOMAIN cc : \A a \in SeqSet(cc[i].v) : Count(a, cc[i].v) = 1

\* C5 seen from the states in which cc is the partition of graph: every
\* failure of C5 starts in a state whose cc is stale
C5_FromConsistentState == ConsistentState => C5_UndoRestoresGraphAndComponents

\* C5, the graph half alone: it holds in every state
C5_UndoRestoresGraph ==
    threads = <<>> =>
        /\ \A sv \in Ids \cup {None} :
               LET S1 == _add_unconnected_sv_to_neuron(CurNP, sv)
               IN  Pushed(S1) => UndoAfter(S1).graph = graph
        /\ \A sv \in Cursor :
               LET S1 == _del_sv_from_neuron(CurNP, sv)
               IN  Pushed(S1) => UndoAfter(S1).graph = graph
        /\ \A sv \in Cursor, has_loc \in BOOLEAN :
               LET S1 == _get_sv2_for_merging(CurNP, sv, has_loc)
               IN  Pushed(S1) => UndoAfter(S1).graph = graph
        /\ \A segment \in Cursor :
               LET S1 == _split_merger(CurNP, segment)
               IN  Pushed(S1) => UndoAfter(S1).graph = graph
        /\ \A segments \in SegmentLists, response \in SeqsUpTo(Pairs, MaxEdges) :
               LET S1 == _remove_merged_group(CurNP, segments, FALSE, response)
               IN  Pushed(S1) => UndoAfter(S1).graph = graph

\* C6: add_node(x) for an x that is already a graph key does not fail and
\* leaves graph and cc as they were.
C6_AddNodeIdempotent ==
    \A x \in DictKeys(graph) :
        LET r == add_node(Cur, <<x>>)
        IN  r.err = "" /\ r.graph = graph /\ r.cc = cc

\* C7: add_edge of an edge {a, b}, a # b, that is already present (given as one
\* edge or as a list holding it) leaves graph and cc unchanged and does not
\* fail.
C7_AddEdgeIdempotent ==
    \A e \in Pairs :
        HasEdge(graph, e[1], e[2]) =>
            \A nested \in BOOLEAN :
                LET r == add_edge(Cur, nested, <<e>>)
                IN  r.err = "" /\ r.graph = graph /\ r.cc = cc

C7_Witness ==
    /\ last.op = "add_edge" /\ last.path = "same" /\ raised = ""
    /\ \E e \in Pairs : HasEdge(graph, e[1], e[2])

\* C8: after add_edge([u, v]) with u # v both are graph keys, v occurs exactly
\* once in graph[u] and u exactly once in graph[v], the other partners of u and
\* v are unchanged and so is the adjacency of every other key.
C8_AddEdgePost ==
    \A e \in Pairs :
        LET u == e[1]
            v == e[2]
            r == add_edge(Cur, FALSE, <<e>>)
        IN  /\ DictHas(r.graph, u) /\ DictHas(r.graph, v)
            /\ Count(v, Adjacency(r.graph, u)) = 1
            /\ Count(u, Adjacency(r.graph, v)) = 1
            /\ Without(Adjacency(r.graph, u), v) = Without(Adjacency(graph, u), v)
            /\ Without(Adjacency(r.graph, v), u) = Without(Adjacency(graph, v), u)
            /\ DictKeys(r.graph) = DictKeys(graph) \cup {u, v}
            /\ \A a \in DictKeys(graph) \ {u, v} :
                   DictGet(r.graph, a) = DictGet(graph, a)

\* C8 seen from the states in which cc is the partition of graph
C8_FromConsistentState == ConsistentState => C8_AddEdgePost

\* C9: when add_edge adds an edge {u, v} whose endpoints lie in two different
\* components, cc afterwards has one component fewer, one component is the
\* union of the two, the others keep their members, no id is lost or
\* duplicated.
C9_AddEdgeMerges ==
    \A e \in Pairs :
        LET u == e[1]
            v == e[2]
            cu == ComponentsOf(cc, u)
            cv == ComponentsOf(cc, v)
            r == add_edge(Cur, FALSE, <<e>>)
        IN  (cu # {} /\ cv # {} /\ cu \cap cv = {}) =>
              \E i \in cu, j \in cv :
                /\ Len(r.cc) = Len(cc) - 1
                /\ \E n \in DOMAIN r.cc :
                     /\ SeqSet(r.cc[n].v) = SeqSet(cc[i].v) \cup SeqSet(cc[j].v)
                     /\ Len(r.cc[n].v) = Len(cc[i].v) + Len(cc[j].v)
                /\ \A h \in DOMAIN cc \ {i, j} :
                     \E n \in DOMAIN r.cc : r.cc[n].v = cc[h].v

\* C9 seen from the states in which cc is the partition of graph
C9_FromConsistentState == ConsistentState => C9_AddEdgeMerges

\* C10: after every LocalGraph operation the keys of cc are exactly 0..k-1,
\* k the number of components.
C10_IndicesCompact == DictKeys(cc) = 0..(Len(cc) - 1)

\* a merge by add_edge, a new singleton by add_node, a split by a deletion
C10_Witness ==
    \/ last.op = "add_edge" /\ last.path = "merge" /\ Len(cc) >= 1
    \/ last.op = "add_node" /\ last.path = "new" /\ Len(cc) >= 2
    \/ last.op \in {"del_node", "del_edge"} /\ raised = "" /\ Len(cc) >= 2

\* C3: for every non-empty symmetric graph whose adjacency entries are all
\* keys, connected_components returns lists that partition the key set: every
\* key is in exactly one list exactly once, no list holds a non-key, and two
\* keys share a list iff a path of edges connects them.
C3_ComponentsPartitionKeys ==
    (last.op = "connected_components" /\ graph # <<>>) =>
        /\ raised = ""
        /\ \A a \in DictKeys(graph) :
             /\ Cardinality(ComponentsOf(cc, a)) = 1
             /\ \A i \in ComponentsOf(cc, a) : Count(a, cc[i].v) = 1
        /\ \A i \in DOMAIN cc : SeqSet(cc[i].v) \subseteq DictKeys(graph)
        /\ \A a, b \in DictKeys(graph) :
             SameComponent(cc, a, b) <=> Connected(graph, a, b)

\* a graph with a component of several nodes next to another component
C3_Witness ==
    /\ last.op = "connected_components" /\ raised = ""
    /\ Len(cc) >= 2
    /\ \E i \in DOMAIN cc : Len(cc[i].v) >= 2

\* the list node without the ids in ids, order kept
Remaining(adj, ids) == SelectSeq(adj, LAMBDA x : x \notin ids)

\* cc is the partition of graph_'s keys by paths, each key listed once
PartitionOf(cc_, graph_) ==
    /\ Membership(cc_) = PathPartition(graph_)
    /\ \A a \in DictKeys(graph_) :
         /\ Cardinality(ComponentsOf(cc_, a)) = 1
         /\ \A i \in ComponentsOf(cc_, a) : Count(a, cc_[i].v) = 1

\* C11: after del_node(ids) that leaves at least one node, no id of ids is a
\* graph key or appears in any adjacency list, the remaining keys and the
\* adjacency among them are otherwise unchanged, and cc is the from-scratch
\* partition of the remaining graph.
C11_DelNodePost ==
    \A node \in AnyNodeLists \ {<<>>} :
        LET r == del_node(Cur, node)
            ids == SeqSet(node)
        IN  r.graph # <<>> =>
              /\ r.err = ""
              /\ DictKeys(r.graph) = DictKeys(graph) \ ids
              /\ \A a \in DictKeys(r.graph) :
                     DictGet(r.graph, a) = Remaining(DictGet(graph, a), ids)
              /\ PartitionOf(r.cc, r.graph)

\* C11 seen from the states whose graph is symmetric: every failure of C11
\* starts from an adjacency that one of the raising calls left one-sided
C11_FromSymmetricGraph == Symmetric(graph) => C11_DelNodePost

\* the endpoints of an edge, and of the edges of a list
Ends(edge) == {edge[1], edge[2]}

EndsOf(edges) == {Ends(edges[i]) : i \in DOMAIN edges}

\* lists of edges between two different ids, no edge twice
DistinctEdgeLists ==
    {edges \in AnyEdgeLists :
        /\ \A i \in DOMAIN edges : edges[i][1] # edges[i][2]
        /\ \A i, j \in DOMAIN edges : Ends(edges[i]) = Ends(edges[j]) => i = j}

\* graph_ without the edges of the list: keys and their order kept, the other
\* partners kept in their order
WithoutEdges(graph_, edges) ==
    [i \in DOMAIN graph_ |->
        [k |-> graph_[i].k,
         v |-> SelectSeq(graph_[i].v, LAMBDA x : {graph_[i].k, x} \notin EndsOf(edges))]]

\* C12: after del_edge on an existing edge {a, b} or on a list of existing
\* edges, each such edge is absent in both directions, the key set and every
\* other adjacency entry are unchanged (no node is removed), and cc is the
\* from-scratch partition of the resulting graph.
C12_DelEdgePost ==
    \A nested \in BOOLEAN, edges \in DistinctEdgeLists :
        ((nested \/ Len(edges) = 1)
            /\ \A i \in DOMAIN edges : HasEdge(graph, edges[i][1], edges[i][2])) =>
          LET r == del_edge(Cur, nested, edges)
          IN  /\ r.err = ""
              /\ \A i \in DOMAIN edges :
                     /\ ~InSeq(edges[i][2], Adjacency(r.graph, edges[i][1]))
                     /\ ~InSeq(edges[i][1], Adjacency(r.graph, edges[i][2]))
              /\ r.graph = WithoutEdges(graph, edges)
              /\ PartitionOf(r.cc, r.graph)

\* C12 seen from the states whose graph is symmetric
C12_FromSymmetricGraph == Symmetric(graph) => C12_DelEdgePost

\* the batches a claim about del_edge is read on: lists of up to MaxBatch edges
Batches == SeqsUpTo(AnyPairs, MaxBatch) \ {<<>>}

\* the edge has an endpoint that is no key of graph_
Dangling(graph_, edge) == ~check_in_graph(graph_, edge)

\* the edges of the batch that del_single_edge does not skip
Kept(graph_, edges) == SelectSeq(edges, LAMBDA e : ~Dangling(graph_, e))

\* C13: del_edge on a batch in which some edge has an endpoint that is not a
\* graph key does not raise: that edge is skipped and leaves graph untouched,
\* every other edge of the batch (an existing edge, before or after it) is
\* still removed, and cc is recomputed at the end.
C13_DelEdgeSkipsUnknown ==
    \A edges \in Batches :
        ((\E i \in DOMAIN edges : Dangling(graph, edges[i]))
            /\ Kept(graph, edges) \in DistinctEdgeLists \cup {<<>>}
            /\ \A i \in DOMAIN edges :
                   Dangling(graph, edges[i]) \/ HasEdge(graph, edges[i][1], edges[i][2])) =>
          LET r == del_edge(Cur, TRUE, edges)
          IN  /\ r.err = ""
              /\ r.graph = WithoutEdges(graph, Kept(graph, edges))
              /\ r.cc = IF r.graph = <<>> THEN <<>>
                        ELSE connected_components(r.graph).cc

\* C13 seen from the states whose graph has a key
C13_FromNonEmptyGraph == graph # <<>> => C13_DelEdgeSkipsUnknown

\* the call of a LocalGraph method with the empty list
WithEmptyInput(op) ==
    CASE op = "add_node" -> add_node(Cur, <<>>)
      [] op = "del_node" -> del_node(Cur, <<>>)
      [] op = "add_edge" -> add_edge(Cur, FALSE, <<<<>>>>)
      [] op = "del_edge" -> del_edge(Cur, FALSE, <<<<>>>>)

\* C14: add_node, add_edge, del_node or del_edge with an empty list is a
\* no-op that does not raise: graph is as before the call, cc has the same
\* components as before (read up to their index and order), and cc gains no
\* empty component.
C14_EmptyInputNoOp ==
    \A op \in {"add_node", "del_node", "add_edge", "del_edge"} :
        LET r == WithEmptyInput(op)
        IN  /\ r.err = ""
            /\ r.graph = graph
            /\ Len(r.cc) = Len(cc)
            /\ Membership(r.cc) = Membership(cc)

\* C14 for add_node alone, the one of the four calls that is a no-op
C14_AddNodeEmptyNoOp ==
    LET r == WithEmptyInput("add_node")
    IN  r.err = "" /\ r.graph = graph /\ r.cc = cc

\* C15: no sequence of LocalGraph operations creates a self-loop: no id ever
\* appears in its own adjacency list, also after add_edge on an edge whose
\* two endpoints are the same id.
C15_NoSelfLoop == \A a \in DictKeys(graph) : ~InSeq(a, DictGet(graph, a))

\* the edge has an endpoint outside the ids of the list
Crosses(ids, edge) == edge[1] \notin SeqSet(ids) \/ edge[2] \notin SeqSet(ids)

\* the edges of the list that cross, read from the first to the last
RECURSIVE CrossingEdges(_, _)
CrossingEdges(ids, edges) ==
    IF edges = <<>> THEN <<>>
    ELSE (IF Crosses(ids, Head(edges)) THEN <<Head(edges)>> ELSE <<>>)
             \o CrossingEdges(ids, Tail(edges))

\* C16: for every id set S and edge list edges, isolate_set(S, edges) returns,
\* in input order, exactly the edges e with e[0] not in S or e[1] not in S; an
\* edge with both endpoints in S is never returned.
C16_IsolateSetContract ==
    last.op = "isolate_set" =>
        /\ edges_to_split = CrossingEdges(sv_ids, edge_list)
        /\ \A i \in DOMAIN edges_to_split :
               ~(InSeq(edges_to_split[i][1], sv_ids) /\ InSeq(edges_to_split[i][2], sv_ids))

\* a call that drops an inner edge between two crossing ones it returns
C16_Witness ==
    /\ last.op = "isolate_set"
    /\ Len(edge_list) = 3
    /\ Crosses(sv_ids, edge_list[1])
    /\ ~Crosses(sv_ids, edge_list[2])
    /\ Crosses(sv_ids, edge_list[3])
    /\ edge_list[1] # edge_list[3]
    /\ Len(edges_to_split) = 2

\* the call of the worked example has returned
ExampleIsolated ==
    last.op = "isolate_set" /\ sv_ids = ExampleIds /\ edge_list = ExampleEdges

\* C17, as the code has it: isolate_set({1,2,3}, [[1,2],[2,3],[3,4],[5,6]])
\* returns [[3,4],[5,6]]: the edges inside the set are dropped, the edge
\* [5,6], which touches no member of the set, has an endpoint outside the set
\* and is returned with [3,4].
C17_ExampleResult ==
    ExampleIsolated => edges_to_split = <<<<3, 4>>, <<5, 6>>>>

C17_Witness == ExampleIsolated /\ Len(edges_to_split) = 2

\* C17, as stated: isolate_set({1,2,3}, [[1,2],[2,3],[3,4],[5,6]]) returns
\* exactly [[3,4]]; [5,6] is not part of the result.
C17_ExampleAsStated ==
    ExampleIsolated => edges_to_split = <<<<3, 4>>>>

\* the history after one more push of an entry onto the current one
AfterPush(entry) ==
    LET grown == Append(action_history, entry)
    IN  IF Len(action_history) = MaxHistory THEN Tail(grown) ELSE grown

\* the handler whose result is S1 pushed once: the entry it made, of the given
\* kind and holding the graph it started from, is the last one, and the
\* entries before it are the current ones, less the oldest if there were ten
PushedOnce(S1, kind) ==
    /\ S1.action_history # <<>>
    /\ LET entry == S1.action_history[Len(S1.action_history)]
       IN  /\ entry.kind = kind
           /\ entry.graph = graph
           /\ S1.action_history = AfterPush(entry)

\* C18: the action history never holds more than 10 entries; every push
\* appends at the end, and a push onto a history of 10 entries discards
\* exactly the oldest one, so that the 10 most recent entries remain in
\* insertion order.
C18_HistoryHoldsLastTen ==
    /\ Len(action_history) <= MaxHistory
    /\ \A sv \in DictKeys(graph) :
           PushedOnce(_del_sv_from_neuron(CurNP, sv), "del_segment")
    /\ \A segments \in LocalSegmentLists :
           PushedOnce(_remove_merged_group(CurNP, segments, FALSE, <<>>), "split")

\* a full history, of entries that are not all the same, just pushed onto
C18_Witness ==
    /\ Len(action_history) = MaxHistory
    /\ last.op \in {"_del_sv_from_neuron", "_remove_merged_group"}
    /\ action_history[1] # action_history[MaxHistory]
    /\ LocalSegmentLists # {<<>>}

\* C19: undo with an empty action history does not raise and changes nothing:
\* graph, cc, edges_to_set, edges_to_delete and the history itself are the
\* same as before the call.
C19_UndoOnEmptyHistory ==
    action_history = <<>> =>
        LET S1 == _undo_last_action(CurNP)
        IN  /\ S1.err = ""
            /\ S1.graph = graph
            /\ S1.cc = cc
            /\ S1.edges_to_set = edges_to_set
            /\ S1.edges_to_delete = edges_to_delete
            /\ S1.action_history = <<>>

\* undo was the first key of the session, on a neuron with segments
C19_Witness ==
    /\ last.op = "_undo_last_action"
    /\ nacts = 1
    /\ action_history = <<>>
    /\ graph # <<>>

\* the handler whose result is S1 left the graph as it was, or pushed an
\* entry that holds the graph it started from
SnapshotFirst(S1) ==
    S1.graph # graph =>
        /\ Len(S1.action_history) = IF Len(action_history) = MaxHistory
                                    THEN MaxHistory ELSE Len(action_history) + 1
        /\ S1.action_history[Len(S1.action_history)].graph = graph

\* add segment, delete segment, set edge, delete edge and split group
PushingHandlersSnapshotFirst ==
    /\ \A sv \in Ids \cup {None} :
           SnapshotFirst(_add_unconnected_sv_to_neuron(CurNP, sv))
    /\ \A sv \in Cursor : SnapshotFirst(_del_sv_from_neuron(CurNP, sv))
    /\ \A sv \in Cursor, has_loc \in BOOLEAN :
           SnapshotFirst(_get_sv2_for_merging(CurNP, sv, has_loc))
    /\ \A segment \in Cursor : SnapshotFirst(_split_merger(CurNP, segment))
    /\ \A segments \in SegmentLists, response \in SeqsUpTo(Pairs, MaxEdges) :
           SnapshotFirst(_remove_merged_group(CurNP, segments, FALSE, response))

\* C20: every user action that changes the session graph (add segment, delete
\* segment, confirm merge split, set edge, delete edge, split group) first
\* pushes the graph as it is before the change onto the action history: no
\* change of graph without a history entry holding the graph just before it.
C20_SnapshotBeforeMutation ==
    /\ PushingHandlersSnapshotFirst
    /\ \A sv_id \in Cursor : SnapshotFirst(_confirm_merge_split(CurNP, sv_id))

\* C20 without confirm merge split: the five handlers that push do so before
\* they change the graph
C20_ExceptConfirmMergeSplit == PushingHandlersSnapshotFirst

\* C21: when the remote store reports no equivalences for a segment s,
\* get_edges gives the one-element list [s], and adding s to the neuron graph
\* then makes s a graph key with empty adjacency and a component of its own,
\* without raising.
C21_IsolatedSegmentAdded ==
    \A s \in Ids :
        ~DictHas(graph, s) =>
            /\ get_edges(s, TRUE, <<>>) = <<s>>
            /\ LET S1 == _add_novel_sv_to_graph(CurNP, s)
               IN  /\ S1.err = ""
                   /\ DictHas(S1.graph, s)
                   /\ DictGet(S1.graph, s) = <<>>
                   /\ \E i \in DOMAIN S1.cc : S1.cc[i].v = <<s>>

\* C21, the half about get_edges alone
C21_GetEdgesOfIsolatedSegment ==
    \A s \in Ids : get_edges(s, TRUE, <<>>) = <<s>>

\* what the fetch of a segment without equivalences is to do to the graph
FetchedUpdate(S, sv) == add_node(S, <<sv>>)

\* the thread of the add-segment key on sv runs to its end
FetchCompletes(S, sv) == [_add_to_graph([S EXCEPT !.err = ""], sv) EXCEPT !.err = ""]

\* two threads of the add-segment key, on two segments new to the graph
TwoFetchesPending(i, j) ==
    /\ i # j
    /\ threads[i].target = "_add_to_graph"
    /\ threads[j].target = "_add_to_graph"
    /\ threads[i].svs[1] # threads[j].svs[1]
    /\ ~DictHas(graph, threads[i].svs[1])
    /\ ~DictHas(graph, threads[j].svs[1])

\* C22: two background fetches that complete concurrently apply their graph
\* updates under mutual exclusion: after both have finished, graph and cc are
\* what one of the two sequential orders of the two updates gives.
C22_FetchesApplyInSomeOrder ==
    \A i, j \in DOMAIN threads :
        TwoFetchesPending(i, j) =>
            LET a == threads[i].svs[1]
                b == threads[j].svs[1]
                R == FetchCompletes(FetchCompletes(CurNP, a), b)
                ab == FetchedUpdate(FetchedUpdate(CurNP, a), b)
                ba == FetchedUpdate(FetchedUpdate(CurNP, b), a)
            IN  \/ R.graph = ab.graph /\ R.cc = ab.cc
                \/ R.graph = ba.graph /\ R.cc = ba.cc

\* what the two fetches do in the code: each ends in its KeyError, in any
\* order, and graph and cc are as before
C22_FetchesLeaveGraph ==
    \A i, j \in DOMAIN threads :
        TwoFetchesPending(i, j) =>
            LET a == threads[i].svs[1]
                b == threads[j].svs[1]
                R == FetchCompletes(FetchCompletes(CurNP, a), b)
            IN  R.graph = graph /\ R.cc = cc

\* C23: saving and structural mutation are serialized by the session lock: a
\* save never reads graph, ledgers or history while a user action is in the
\* middle of changing them.
C23_SaveExcludesMutation ==
    /\ save_pc \in {"copied", "dumped"} => saved.at_copy = "idle"
    /\ saved.written => saved.at_copy = "idle" /\ saved.at_dump = "idle"

\* what the lock does give: one save at a time, and the lock held while
\* _save_data runs
C23_LockHeldWhileSaving == save_pc # "idle" <=> lock = "timer"

\* the last thing pushed was an add-segment action, and its fetch of a
\* segment new to the graph has not run yet
FetchPendingForLastAction(i) ==
    /\ threads[i].target = "_add_to_graph"
    /\ ~DictHas(graph, threads[i].svs[1])
    /\ action_history # <<>>
    /\ action_history[Len(action_history)].kind = "add_segment"

\* C24: a background fetch started by an add-segment action is never
\* cancelled: if the user undoes the action before the fetch completes, the
\* fetch's graph update is still applied afterwards, so that the final graph
\* holds the fetched segment although its history entry is gone.
C24_FetchAppliedAfterUndo ==
    \A i \in DOMAIN threads :
        FetchPendingForLastAction(i) =>
            LET undone == _undo_last_action(CurNP)
                R == FetchCompletes(undone, threads[i].svs[1])
            IN  /\ undone.threads = threads
                /\ Len(R.action_history) = Len(action_history) - 1
                /\ DictHas(R.graph, threads[i].svs[1])

\* C24, the half that holds: undo leaves the started threads alone and takes
\* the entry away; the thread then ends in its KeyError and the graph is the
\* one undo restored
C24_FetchNotCancelled ==
    \A i \in DOMAIN threads :
        FetchPendingForLastAction(i) =>
            LET undone == _undo_last_action(CurNP)
                R == FetchCompletes(undone, threads[i].svs[1])
            IN  /\ undone.threads = threads
                /\ Len(R.action_history) = Len(action_history) - 1
                /\ R.graph = undone.graph

\* loading data fails: an expected key is missing, a value has the wrong
\* type, or the partition of neuron_graph cannot be computed
LoadFails(data) ==
    \/ data.names # VarNames
    \/ data.not_lists # {}
    \/ ~data.has_graph
    \/ connected_components(data.neuron_graph).err # ""

WellFormedData ==
    {data \in PersistedData : /\ data.not_lists \subseteq data.names
                              /\ ~data.has_graph => data.neuron_graph = <<>>}

\* C25: when loading the data of an earlier session fails, a message is
\* recorded and the session goes on with an empty graph and an empty cc: it
\* neither crashes nor keeps a partly loaded graph.
C25_FailedLoadLeavesEmptyGraph ==
    last.op = "init" =>
        \A data \in WellFormedData :
            LoadFails(data) =>
                LET S1 == _load_data(_load_data(CurNP, data), data)
                IN  /\ S1.err = ""
                    /\ S1.path = "except"
                    /\ S1.graph = <<>>
                    /\ S1.cc = <<>>

\* C25, the part that holds: the failure is caught and the message recorded;
\* the graph is empty unless the failure came after graph.graph was bound
C25_FailedLoadIsCaught ==
    last.op = "init" =>
        \A data \in WellFormedData :
            LoadFails(data) =>
                LET S1 == _load_data(_load_data(CurNP, data), data)
                IN  /\ S1.err = ""
                    /\ S1.path = "except"
                    /\ S1.cc = <<>>
                    /\ S1.graph \in {<<>>, data.neuron_graph}
                    /\ (data.names # VarNames \/ data.not_lists # {}) => S1.graph = <<>>

\* the edges [s, p] of the ids: s an id that is a key, p a partner of s
IncidentPairs(ids) ==
    {e \in [1..2 -> KeyIds] : /\ InSeq(e[1], ids)
                              /\ DictHas(graph, e[1])
                              /\ InSeq(e[2], DictGet(graph, e[1]))}

\* the state part of C26
ReturnedEdgesExact ==
    last.op = "return_edge_list" =>
        /\ raised = ""
        /\ SeqSet(edge_list) = IncidentPairs(sv_ids)
        /\ \A e \in IncidentPairs(sv_ids) :
               Count(e, edge_list) = Count(e[1], sv_ids) * Count(e[2], DictGet(graph, e[1]))

\* C26: return_edge_list(ids) returns exactly the pairs [s, p] with s in ids,
\* s a graph key and p in graph[s]; ids that are not graph keys contribute
\* nothing and do not raise, and the call changes neither graph nor cc.
C26_ReturnEdgeListContract ==
    /\ []ReturnedEdgesExact
    /\ [][last'.op = "return_edge_list" => graph' = graph /\ cc' = cc]_vars

\* ids of which one is a key with a partner and one is not a key
C26_Witness ==
    /\ last.op = "return_edge_list"
    /\ edge_list # <<>>
    /\ \E i \in DOMAIN sv_ids : ~DictHas(graph, sv_ids[i])

\* k undo keys in a row: the session after them, and whether each of them
\* took exactly one entry off the history
RECURSIVE UndoStreak(_, _)
UndoStreak(S, k) ==
    IF k = 0 THEN [S |-> S, each_popped |-> TRUE]
    ELSE LET S1 == _undo_last_action([S EXCEPT !.err = "", !.path = ""])
             rest == UndoStreak(S1, k - 1)
         IN  [S |-> rest.S,
              each_popped |-> /\ S1.err = ""
                              /\ Len(S1.action_history) = Len(S.action_history) - 1
                              /\ rest.each_popped]

\* C27: the last 10 graph-changing actions can be undone one after the other:
\* after k <= 10 pushing actions, k undos in a row each pop one entry and
\* bring graph back to what it was before the first of these actions (the
\* snapshot of the oldest entry), and one more undo is a no-op.
C27_UndoStreakRestores ==
    action_history # <<>> =>
        LET k == Len(action_history)
            undone == UndoStreak(CurNP, k)
        IN  /\ k <= MaxHistory
            /\ undone.each_popped
            /\ undone.S.graph = Synced(CurNP).action_history[1].graph
            /\ UndoStreak(undone.S, 1).S = [undone.S EXCEPT !.err = "", !.path = ""]

\* C27 for the histories of add-segment, delete-segment and split-group
\* entries, whose rollback pops no ledger
C27_WithoutLedgerPops ==
    (\A i \in DOMAIN action_history : action_history[i].kind \notin {"set", "del"})
        => C27_UndoStreakRestores

\* a list less its last entry
Front(seq) == SubSeq(seq, 1, Len(seq) - 1)

\* the ledgers after the rollback of an entry, as the claim has them
RolledBack(S1, entry) ==
    IF entry.kind = "set"
    THEN /\ edges_to_set # <<>>
         /\ S1.edges_to_set = Front(edges_to_set)
         /\ S1.edges_to_delete = edges_to_delete
    ELSE IF entry.kind = "del"
    THEN /\ edges_to_delete # <<>>
         /\ S1.edges_to_delete = Front(edges_to_delete)
         /\ S1.edges_to_set = edges_to_set
    ELSE IF entry.kind = "split"
    THEN /\ S1.edges_to_delete = SelectSeq(edges_to_delete,
                                           LAMBDA e : ~InSeq(e, entry.edges))
         /\ S1.edges_to_set = edges_to_set
    ELSE /\ S1.edges_to_set = edges_to_set
         /\ S1.edges_to_delete = edges_to_delete

\* C28: each undo removes exactly the last history entry and performs the
\* rollback of its kind: 'set' removes the last entry of edges_to_set, 'del'
\* the last entry of edges_to_delete, 'split' the edges stored in the entry
\* from edges_to_delete; add_segment and del_segment leave both ledgers alone.
C28_UndoRollsBackByKind ==
    action_history # <<>> =>
        LET n == Len(action_history)
            S1 == _undo_last_action(CurNP)
        IN  /\ S1.err = ""
            /\ Len(S1.action_history) = n - 1
            /\ \A i \in 1..(n - 1) : S1.action_history[i].kind = action_history[i].kind
            /\ RolledBack(S1, action_history[n])

\* C28 in the states in which the ledger the rollback pops has an entry
C28_WhenLedgerHasEntry ==
    LET entry == action_history[Len(action_history)]
    IN  /\ action_history # <<>>
        /\ entry.kind = "set" => edges_to_set # <<>>
        /\ entry.kind = "del" => edges_to_delete # <<>>
        => C28_UndoRollsBackByKind

\* the statements that write to the list
WriteStatements ==
    {"append", "__iadd__", "add", "__isub__", "pop", "remove", "update",
     "__setitem__", "__delitem__"}

\* C29: after any write operation on a ledger held in a CustomList attribute
\* (append, +=, add/extend, -=, pop, remove, update, item assignment or
\* deletion), the list the attribute holds has unsaved_changes = True until
\* the next save clears it.
C29_WritesSetTheFlag ==
    (last.op \in WriteStatements /\ raised = "") => ledger.unsaved_changes

\* C29 for the methods that leave the attribute bound to the same object
C29_MethodsSetTheFlag ==
    (last.op \in WriteStatements \ {"__iadd__", "__isub__"} /\ raised = "")
        => ledger.unsaved_changes

\* [[location1, location2], [id1, id2]]: two locations, two distinct ids, no 0
WellFormedEdge(edge) ==
    /\ Len(edge.loc) = 2
    /\ Len(edge.ids) = 2
    /\ edge.ids[1] # edge.ids[2]
    /\ ~InSeq(0, edge.ids) /\ ~InSeq(None, edge.ids)

WellFormedEdges(edges) == \A i \in DOMAIN edges : WellFormedEdge(edges[i])

\* C30: every entry of edges_to_set has the form [[location1, location2],
\* [id1, id2]] with exactly two locations and exactly two distinct non-zero
\* segment ids, after any sequence of first-segment and second-segment
\* actions, a second-segment action repeated without a new first-segment
\* action included.
C30_EdgesToSetWellFormed == WellFormedEdges(edges_to_set)

\* C30 for a second-segment action on a cursor with a position that follows
\* the first-segment action directly: it leaves well-formed entries so
C30_SecondAfterFirst ==
    (/\ WellFormedEdges(edges_to_set)
     /\ Len(set_edge_ids_temp) = 1 /\ Len(set_edge_loc_temp) = 1)
        => \A sv \in Cursor :
               WellFormedEdges(_get_sv2_for_merging(CurNP, sv, TRUE).edges_to_set)

\* the segment ids an entry of edges_to_set names, as _direct_merging compares
\* entries: set(edge[1])
EdgeIds(edge) == SeqSet(edge.ids)

\* C31: edges_to_set never holds two entries for the same unordered pair of
\* segment ids: setting an edge between a pair that already has an entry
\* replaces that entry instead of adding a second one.
C31_OneEntryPerPair ==
    \A i, j \in DOMAIN edges_to_set :
        EdgeIds(edges_to_set[i]) = EdgeIds(edges_to_set[j]) => i = j

\* C31 for a second-segment action on a ledger of well-formed entries that
\* follows the first-segment action directly: the entry of the pair is replaced
C31_ReplacesWellFormedEntry ==
    (/\ WellFormedEdges(edges_to_set)
     /\ C31_OneEntryPerPair
     /\ Len(set_edge_ids_temp) = 1 /\ Len(set_edge_loc_temp) = 1)
        => \A sv \in Cursor :
               LET S1 == _get_sv2_for_merging(CurNP, sv, TRUE)
               IN  \A i, j \in DOMAIN S1.edges_to_set :
                       EdgeIds(S1.edges_to_set[i]) = EdgeIds(S1.edges_to_set[j]) => i = j

\* S1 is the session without the connected component of sv, and nothing else
\* of the graph changed
ComponentDeleted(S1, sv) ==
    LET members == Reach(graph, {sv})
    IN  /\ S1.err = ""
        /\ DictKeys(S1.graph) = DictKeys(graph) \ members
        /\ \A k \in DictKeys(S1.graph) : DictGet(S1.graph, k) = DictGet(graph, k)
        /\ Membership(S1.cc) = PathPartition(S1.graph)

\* the two handlers that delete the segment under the cursor
DeletingHandlers(sv) ==
    {_del_sv_from_neuron(CurNP, sv), _confirm_merge_split(CurNP, sv)}

\* cc is the partition of the graph's keys by paths, as after a call that
\* returned
ComponentsCurrent == Membership(cc) = PathPartition(graph)

\* C32: deleting a segment sv that is in the graph (_del_sv_from_neuron,
\* _confirm_merge_split) removes exactly the members of sv's connected
\* component: afterwards none of them is a graph key, every other key keeps
\* its adjacency, and cc holds exactly the remaining components, also when the
\* removed component was the only one.
C32_DeletesTheComponent ==
    ComponentsCurrent =>
        \A sv \in Ids : DictHas(graph, sv) =>
            \A S1 \in DeletingHandlers(sv) : ComponentDeleted(S1, sv)

\* C32 when the segment's component is not the only one
C32_WhenOtherComponentsRemain ==
    ComponentsCurrent =>
        \A sv \in Ids : (DictHas(graph, sv) /\ Reach(graph, {sv}) # DictKeys(graph)) =>
            \A S1 \in DeletingHandlers(sv) : ComponentDeleted(S1, sv)

\* the edges that leave the group: [s, x] with s in the group, x outside it
\* and joined to s in the graph
CutEdges(segments) ==
    {<<s_, x>> : s_ \in SeqSet(segments), x \in DictKeys(graph) \ SeqSet(segments)}
        \cap {e \in Ids \X Ids : Linked(graph, e[1], e[2])}

\* what _remove_merged_group appended to edges_to_delete
Appended(S1) ==
    SubSeq(S1.edges_to_delete, Len(edges_to_delete) + 1, Len(S1.edges_to_delete))

\* one entry more (the oldest dropped from a full history), and the last one
\* is a 'split' entry with the graph as it is now
PushedSplit(S1) ==
    LET n == Len(S1.action_history)
    IN  /\ n = IF Len(action_history) < MaxHistory
               THEN Len(action_history) + 1 ELSE MaxHistory
        /\ S1.action_history[n].kind = "split"
        /\ S1.action_history[n].graph = graph
        /\ S1.action_history[n].edges = Appended(S1)
        /\ \A i \in 1..(n - 1) :
               S1.action_history[i].kind
                   = action_history[i + Len(action_history) + 1 - n].kind

SplitOff(S1, segments) ==
    /\ PushedSplit(S1)
    /\ SubSeq(S1.edges_to_delete, 1, Len(edges_to_delete)) = edges_to_delete
    /\ SeqSet(Appended(S1)) = CutEdges(segments)
    /\ Len(Appended(S1)) = Cardinality(CutEdges(segments))
    /\ \A i \in DOMAIN segments : ~DictHas(S1.graph, segments[i])

\* C33: splitting off a group S whose members are all graph keys
\* (_remove_merged_group) pushes one 'split' history entry holding the
\* pre-split graph, appends to edges_to_delete exactly the edges [s, x] with s
\* in S, x not in S and x adjacent to s before the split (no edge between two
\* members of S), and leaves no member of S in graph.
C33_SplitGroupContract ==
    \A segments \in LocalSegmentLists :
        SplitOff(_remove_merged_group(CurNP, segments, FALSE, <<>>), segments)

\* a group with an edge to the rest of the graph has been split off
C33_Witness ==
    /\ last.op = "_remove_merged_group"
    /\ action_history # <<>>
    /\ LET entry == action_history[Len(action_history)]
       IN  /\ entry.kind = "split"
           /\ entry.edges # <<>>
           /\ \A i \in DOMAIN entry.edges :
                  /\ DictHas(entry.graph, entry.edges[i][1])
                  /\ InSeq(entry.edges[i][2], DictGet(entry.graph, entry.edges[i][1]))
                  /\ ~DictHas(graph, entry.edges[i][1])
                  /\ DictHas(graph, entry.edges[i][2])

\* a pass of the loop marks a segment that was not marked before
PassVisitsNewSegment ==
    loop.at = "while" =>
        /\ loop'.at \in {"while", "exit"}
        /\ loop.visited \subseteq loop'.visited
        /\ loop.visited # loop'.visited

\* the call has returned: every key visited, the last component closed, and
\* the dict returned is the one the loop built
ReturnedAllVisited ==
    /\ loop.at = "returned"
    /\ loop.visited = DictKeys(graph)
    /\ loop.component = <<>> /\ loop.queue = <<>>
    /\ cc = loop.cc
    /\ Membership(cc) = PathPartition(graph)

\* C34: connected_components terminates on every finite non-empty symmetric
\* graph whose adjacency entries are all keys (graphs with cycles, where a
\* node enters the queue more than once, included): the traversal loop ends
\* once every node is visited and the last component has been closed.
C34_ConnectedComponentsTerminates ==
    /\ [][PassVisitsNewSegment]_vars
    /\ <>ReturnedAllVisited

\* the call has returned on a cycle of three segments
C34_Witness ==
    /\ ReturnedAllVisited
    /\ Len(graph) = 3
    /\ \A i \in DOMAIN graph : Len(graph[i].v) = 2

\* the pass-by-pass call returns what connected_components gives
C34_SameAsTheWholeCall ==
    loop.at = "returned" => cc = connected_components(graph).cc

\* the segment the next pass visits is in the queue once more: it was queued
\* as a partner of two segments
QueuedAgain == loop.at = "while" /\ InSeq(loop.sv_id, loop.queue)

\* every key of the graph is in cc exactly once
EachKeyOnce ==
    \A k \in KeyIds :
        Cardinality(UNION {{<<i, j>> : j \in {j \in DOMAIN cc[i].v : cc[i].v[j] = k}} :
                              i \in DOMAIN cc})
            = IF DictHas(graph, k) THEN 1 ELSE 0

\* C35: for any sequence of add_node calls on ids not yet present and
\* add_edge calls on edges with two distinct endpoints, starting from the
\* empty graph, the incrementally maintained cc has after every call the same
\* membership partition as connected_components(graph) computed from scratch.
C35_IncrementalMatchesRecomputed ==
    last.op # "init" =>
        /\ raised = ""
        /\ connected_components(graph).err = ""
        /\ Membership(cc) = Membership(connected_components(graph).cc)
        /\ EachKeyOnce

\* an edge has joined two components of a graph of three segments
C35_Witness ==
    /\ last = [op |-> "add_edge", path |-> "merge"]
    /\ Len(graph) = 3
    /\ Len(cc) = 1

\* both ends of the edge are keys of graph_, different, and neither lists
\* the other
Apart(graph_, edge) ==
    /\ edge[1] # edge[2]
    /\ check_in_graph(graph_, edge)
    /\ ~InSeq(edge[2], DictGet(graph_, edge[1]))
    /\ ~InSeq(edge[1], DictGet(graph_, edge[2]))

\* the edges of the batch that are in the graph
Present(graph_, edges) ==
    SelectSeq(edges, LAMBDA e : HasEdge(graph_, e[1], e[2]))

\* del_edge returned, took out the edges of the batch that were in the graph
\* and nothing else, and recomputed cc
SkippedAndRemoved(r, edges) ==
    /\ r.err = ""
    /\ r.graph = WithoutEdges(graph, Present(graph, edges))
    /\ r.cc = connected_components(r.graph).cc

\* C36: del_edge on an edge whose two endpoints are graph keys but are not
\* adjacent does not fail and leaves graph unchanged for that edge; in a batch
\* the remaining edges are still removed and cc is recomputed, so cc is never
\* left stale with respect to graph.
C36_DelEdgeSkipsMissingEdge ==
    /\ \A edge \in AnyPairs : Apart(graph, edge) =>
           SkippedAndRemoved(del_edge(Cur, FALSE, <<edge>>), <<edge>>)
    /\ \A edges \in Batches :
           (/\ \E i \in DOMAIN edges : Apart(graph, edges[i])
            /\ Present(graph, edges) \in DistinctEdgeLists \cup {<<>>}
            /\ \A i \in DOMAIN edges :
                   Apart(graph, edges[i]) \/ HasEdge(graph, edges[i][1], edges[i][2]))
             => SkippedAndRemoved(del_edge(Cur, TRUE, edges), edges)

\* what del_edge does with one such edge: ValueError, graph and cc as before
C36_MissingEdgeRaises ==
    \A edge \in AnyPairs : Apart(graph, edge) =>
        LET r == del_edge(Cur, FALSE, <<edge>>)
        IN  r.err = "ValueError" /\ r.graph = graph /\ r.cc = cc

\* the contents of edges_to_set: locations and ids of its entries
Contents(edges) == [i \in DOMAIN edges |-> <<edges[i].loc, edges[i].ids>>]

\* the second-segment action whose result is S1 has set an edge, and the
\* undo that follows leaves edges_to_set with the contents it has now
SetThenUndone(S1) ==
    Pushed(S1) => Contents(UndoAfter(S1).edges_to_set) = Contents(edges_to_set)

\* C37: setting an edge between two segments and undoing it immediately
\* leaves edges_to_set equal to its contents before the edge was set, for
\* every prior content of the ledger including one that already holds an
\* entry for the same pair.
C37_SetThenUndoRestoresLedger ==
    \A sv \in Cursor, has_loc \in BOOLEAN :
        SetThenUndone(_get_sv2_for_merging(CurNP, sv, has_loc))

\* C37 when the ledger holds no entry for the pair and the second-segment
\* action follows the first-segment action directly
C37_WhenPairIsNew ==
    \A sv \in Cursor :
        (/\ Len(set_edge_ids_temp) = 1 /\ Len(set_edge_loc_temp) = 1
         /\ \A i \in DOMAIN edges_to_set :
                EdgeIds(edges_to_set[i]) # SeqSet(set_edge_ids_temp) \cup {sv})
            => SetThenUndone(_get_sv2_for_merging(CurNP, sv, TRUE))

\* the split whose result is S1, undone at once, leaves edges_to_delete as it
\* is now
SplitThenUndone(S1) ==
    (S1.err = "" /\ Pushed(S1)) => UndoAfter(S1).edges_to_delete = edges_to_delete

\* C38: splitting off a group and undoing it immediately leaves
\* edges_to_delete equal to its contents before the split, for every prior
\* content of the ledger including one that already holds an edge equal to
\* one of the edges cut by the split.
C38_SplitThenUndoRestoresLedger ==
    \A segments \in LocalSegmentLists :
        SplitThenUndone(_remove_merged_group(CurNP, segments, FALSE, <<>>))

\* C38 when the ledger holds none of the edges the split cuts
C38_WhenCutEdgesAreNew ==
    \A segments \in LocalSegmentLists :
        (\A i \in DOMAIN edges_to_delete : edges_to_delete[i] \notin CutEdges(segments))
            => SplitThenUndone(_remove_merged_group(CurNP, segments, FALSE, <<>>))

\* a handler has ended and left the graph changed
GraphChangeComplete == graph' # graph /\ pc'.at = "idle"

SomeListFlagged == \E name \in VarNames : unsaved'[name]

\* C39: every change of the session graph is eventually persisted by
\* autosave: after any user action or background fetch that changes graph, at
\* least one persisted list is flagged unsaved when the change is complete, so
\* the next autosave tick writes a file containing the changed graph.
C39_GraphChangeLeavesFlag == [][GraphChangeComplete => SomeListFlagged]_vars

\* C39 for the handlers that push to the history, when no save has cleared
\* the flags while the handler was running
C39_PushingHandlersLeaveFlag ==
    [][(/\ GraphChangeComplete
        /\ last'.op # "_confirm_merge_split"
        /\ saved.during # nacts) => SomeListFlagged]_vars

\* the list a name of var_names stands for
ListOf(name) ==
    IF name = "edges_to_set" THEN edges_to_set
    ELSE IF name = "edges_to_delete" THEN edges_to_delete
    ELSE action_history

\* the save ends: the flags are cleared
SaveFinishes == save_pc = "dumped" /\ save_pc' = "idle"

\* C40: a ledger or history change made by a user action while a save is in
\* progress is not lost to persistence: when the save finishes, either the
\* written file contains the change or the changed list is still flagged
\* unsaved.
C40_ChangeDuringSaveNotLost ==
    [][SaveFinishes =>
          \A name \in VarNames : saved.lists[name] = ListOf(name) \/ unsaved'[name]]_vars

\* C40 for a save during which no handler was running or started
C40_SaveBetweenHandlers ==
    [][(SaveFinishes /\ saved.at_copy = "idle" /\ pc.at = "idle"
            /\ saved.lists["action_history"] = action_history) =>
          \A name \in VarNames : saved.lists[name] = ListOf(name) \/ unsaved'[name]]_vars

====
